---- MODULE Spec2Model ----
(***************************************************************************)
(* PostGraph: the variable-length-edge (VLE) traversal engine of           *)
(* age_vle.c, the edge-uniqueness predicate, the MATCH pattern transform   *)
(* and the boolean / comparison builders of the Cypher grammar.            *)
(***************************************************************************)
EXTENDS Integers, Sequences, FiniteSets, TLC

(***************************************************************************)
(* Bounds of the model.                                                    *)
(***************************************************************************)
MaxEdges == 3
MaxLidx == 2
MaxUidx == 2

(***************************************************************************)
(* Small helpers on sequences.                                             *)
(***************************************************************************)
RECURSIVE Reverse(_)
Reverse(s) == IF s = <<>> THEN <<>> ELSE Reverse(Tail(s)) \o <<Head(s)>>

Range(s) == {s[i] : i \in DOMAIN s}

IsInjective(s) == \A i, j \in DOMAIN s : s[i] = s[j] => i = j

Min(a, b) == IF a < b THEN a ELSE b

(***************************************************************************)
(* VLE engine: the graph, the call arguments and the traversal context.    *)
(***************************************************************************)
VARIABLES
    ggctx,              \* global graph context: the edge entries, by edge id
    fcinfo,             \* arguments of the gtype_vle invocation
    path_ctx,           \* path_finding_context scalars built on the first call
    edge_state,         \* edge_state_hashtable: edge id -> visited
    dfs_vertex_queue,   \* stack of source vertices (undirected traversal only)
    dfs_edge_queue,     \* stack of candidate edges
    dfs_path_queue,     \* stack of the edges of the current path
    pc,                 \* position of the set-returning function
    yielded,            \* graphid arrays returned so far, in order
    calls               \* number of calls of gtype_vle made so far

vle_vars == <<ggctx, fcinfo, path_ctx, edge_state, dfs_vertex_queue,
              dfs_edge_queue, dfs_path_queue, pc, yielded, calls>>

\* _ag_enforce_edge_uniqueness
VARIABLES
    uq_args,            \* the variadic arguments of the call
    uq_result           \* "pending" before the call, then "true" or "false"

uq_vars == <<uq_args, uq_result>>

\* transform of a MATCH clause
VARIABLES
    mt_pattern,         \* the paths of the clause: per path, its relationships
    mt_next,            \* index of the next path transform_match_pattern visits
    mt_quals,           \* quals collected so far, in order
    mt_pc               \* "parse", "transform" or "done"

mt_vars == <<mt_pattern, mt_next, mt_quals, mt_pc>>

\* the expression grammar of the Cypher parser
VARIABLES
    ex_source,          \* the tokens of the expression being parsed
    ex_input,           \* the tokens not yet read
    ex_stack,           \* the parser's symbol stack, top last
    ex_values,          \* the parser's value stack: the nodes of the exprs on ex_stack
    ex_last,            \* arguments and result of the last build_comparison_expression
    ex_pc               \* "parsing" or "accepted"

ex_vars == <<ex_source, ex_input, ex_stack, ex_values, ex_last, ex_pc>>

\* the range of a variable length relationship, from the grammar to the engine
VARIABLES
    rg_source,          \* the range as written in the relationship pattern
    rg_varlen,          \* the varlen field of the cypher_relationship
    rg_args,            \* the lidx and uidx arguments of the emitted vle call
    rg_ctx,             \* the path_finding_context the engine builds
    rg_pc               \* how far the relationship has come

rg_vars == <<rg_source, rg_varlen, rg_args, rg_ctx, rg_pc>>

\* the clause grammar of the Cypher parser
VARIABLES
    sq_source,          \* the clauses of the statement being parsed
    sq_input,           \* the clauses not yet read
    sq_stack,           \* the parser's symbol stack, top last
    sq_pc               \* "parsing", "accepted" or the error raised

sq_vars == <<sq_source, sq_input, sq_stack, sq_pc>>

\* the join quals of one MATCH path
VARIABLES
    jn_source,          \* the path as written
    jn_path,            \* the cypher_path, whose nodes the transform names
    jn_i,               \* the index i of the loop of transform_match_entities
    jn_entities,        \* the transform entities built so far
    jn_quals,           \* the result of make_path_join_quals
    jn_pc               \* "entities", "quals" or "done"

jn_vars == <<jn_source, jn_path, jn_i, jn_entities, jn_quals, jn_pc>>

\* a WITH clause, from the grammar to the query emitted for it
VARIABLES
    wt_source,          \* the WITH clause as written
    wt_clause,          \* the cypher_with the grammar builds
    wt_wrapper,         \* the clause transform_cypher_with wraps around a cypher_return
    wt_query,           \* the Query emitted
    wt_pc               \* "parse", "with", "where", "done" or the error raised

wt_vars == <<wt_source, wt_clause, wt_wrapper, wt_query, wt_pc>>

\* the columns of the join of a clause to the previous clause
VARIABLES
    rc_left,            \* the columns of the previous clause (l_rte)
    rc_right,           \* the columns of the OPTIONAL MATCH or MERGE (r_rte)
    rc_targets,         \* the target list made from the join
    rc_pc               \* "clause", "optional match" or "merge"

rc_vars == <<rc_left, rc_right, rc_targets, rc_pc>>

\* the parse states of the clauses of a query and their transform entities
VARIABLES
    sc_clauses,         \* the clauses of the query, first to last
    sc_stack,           \* the cypher_parsestates in use, the current one last
    sc_pc               \* "transform" or "done"

sc_vars == <<sc_clauses, sc_stack, sc_pc>>

\* the predicates that join a variable length edge to its neighbours
VARIABLES
    pd_eentry_bits,     \* the width of an entry of an edge datum in the build
    pd_id,              \* the graphid argument, or the id of the vertex argument
    pd_ve,              \* the VariableEdge argument: edge, vertex, edge, ...
    pd_call             \* the predicate called and what it returned

pd_vars == <<pd_eentry_bits, pd_id, pd_ve, pd_call>>

\* transform of the pattern of a CREATE or a MERGE clause
VARIABLES
    cr_clause,        \* "create" or "merge", the clause transformed
    cr_prev,          \* clause->prev: whether there is one, what it declares
    cr_path,          \* cypher_path->path, the nodes and relationships
    cr_pos,           \* the element the foreach over the path is at
    cr_labels,        \* the labels of the graph in the catalog
    cr_entities,      \* cpstate->entities
    cr_target_nodes,  \* the target nodes transformed so far
    cr_query,         \* the directive of the Query returned, once returned
    cr_error          \* the message of the ereport(ERROR) raised, "" if none

cr_vars == <<cr_clause, cr_prev, cr_path, cr_pos, cr_labels, cr_entities, cr_target_nodes, cr_query, cr_error>>

\* transform of a DELETE, a SET or a REMOVE clause
VARIABLES
    up_clause,      \* "delete", "set" or "remove", the clause transformed
    up_prev,        \* clause->prev: whether there is one, its columns
    up_items,       \* the items written in the clause
    up_pos,         \* 0 before the clause is entered, then the item at hand
    up_targetList,  \* query->targetList
    up_info,        \* the items transformed so far
    up_query,       \* the directive of the Query returned, once returned
    up_error        \* the message of the ereport(ERROR) raised, "" if none

up_vars == <<up_clause, up_prev, up_items, up_pos, up_targetList, up_info, up_query, up_error>>

vars == <<vle_vars, uq_vars, mt_vars, ex_vars, rg_vars, sq_vars, jn_vars, wt_vars, rc_vars, sc_vars, pd_vars, cr_vars, up_vars>>

\* what a step of one part of the system leaves alone
other_than_vle == <<uq_vars, mt_vars, ex_vars, rg_vars, sq_vars, jn_vars, wt_vars, rc_vars, sc_vars, pd_vars, cr_vars, up_vars>>
other_than_uq == <<vle_vars, mt_vars, ex_vars, rg_vars, sq_vars, jn_vars, wt_vars, rc_vars, sc_vars, pd_vars, cr_vars, up_vars>>
other_than_mt == <<vle_vars, uq_vars, ex_vars, rg_vars, sq_vars, jn_vars, wt_vars, rc_vars, sc_vars, pd_vars, cr_vars, up_vars>>
other_than_ex == <<vle_vars, uq_vars, mt_vars, rg_vars, sq_vars, jn_vars, wt_vars, rc_vars, sc_vars, pd_vars, cr_vars, up_vars>>
other_than_rg == <<vle_vars, uq_vars, mt_vars, ex_vars, sq_vars, jn_vars, wt_vars, rc_vars, sc_vars, pd_vars, cr_vars, up_vars>>
other_than_sq == <<vle_vars, uq_vars, mt_vars, ex_vars, rg_vars, jn_vars, wt_vars, rc_vars, sc_vars, pd_vars, cr_vars, up_vars>>
other_than_jn == <<vle_vars, uq_vars, mt_vars, ex_vars, rg_vars, sq_vars, wt_vars, rc_vars, sc_vars, pd_vars, cr_vars, up_vars>>
other_than_wt == <<vle_vars, uq_vars, mt_vars, ex_vars, rg_vars, sq_vars, jn_vars, rc_vars, sc_vars, pd_vars, cr_vars, up_vars>>
other_than_rc == <<vle_vars, uq_vars, mt_vars, ex_vars, rg_vars, sq_vars, jn_vars, wt_vars, sc_vars, pd_vars, cr_vars, up_vars>>
other_than_sc == <<vle_vars, uq_vars, mt_vars, ex_vars, rg_vars, sq_vars, jn_vars, wt_vars, rc_vars, pd_vars, cr_vars, up_vars>>
other_than_pd == <<vle_vars, uq_vars, mt_vars, ex_vars, rg_vars, sq_vars, jn_vars, wt_vars, rc_vars, sc_vars, cr_vars, up_vars>>
other_than_cr == <<vle_vars, uq_vars, mt_vars, ex_vars, rg_vars, sq_vars, jn_vars, wt_vars, rc_vars, sc_vars, pd_vars, up_vars>>
other_than_up == <<vle_vars, uq_vars, mt_vars, ex_vars, rg_vars, sq_vars, jn_vars, wt_vars, rc_vars, sc_vars, pd_vars, cr_vars>>

\* the vertices of the graph; the engine only compares vertex ids for equality
Vertices == {1, 2}

\* edge labels as in the traversal_functions fixture; the label of an edge is
\* fixed by the label table it was inserted into, here by the parity of its id
LabelOf(e) == IF e % 2 = 1 THEN "edge" ELSE "alternate_edge"

Dirs == {"RIGHT", "LEFT", "NONE"}

\* an optional integer or string argument (PG_ARGISNULL / is_gtype_null)
NullArg == [isnull |-> TRUE, val |-> 0]
IntArg(v) == [isnull |-> FALSE, val |-> v]
NullStr == [isnull |-> TRUE, val |-> ""]
StrArg(s) == [isnull |-> FALSE, val |-> s]

EdgeShapes == UNION {[1..m -> Vertices \X Vertices] : m \in 0..MaxEdges}

\* the properties of an edge, an object of scalar values as a set of
\* <<key, value>> pairs; like its label they are fixed by the id of the edge
PropertiesOf(e) ==
    CASE e % 3 = 1 -> {<<"k", 1>>}
      [] e % 3 = 2 -> {<<"k", 1>>, <<"j", 2>>}
      [] OTHER     -> {<<"k", 2>>}

\* an optional object argument (PG_ARGISNULL / is_gtype_null)
NullProps == [isnull |-> TRUE, val |-> {}]
PropsArg(o) == [isnull |-> FALSE, val |-> o]

MakeGraph(s) ==
    [e \in 1..Len(s) |-> [start_id |-> s[e][1], end_id |-> s[e][2], label |-> LabelOf(e),
                          properties |-> PropertiesOf(e)]]

Graphs == {MakeGraph(s) : s \in EdgeShapes}

EdgeIds(g) == [i \in 1..Len(g) |-> i]

\* the three per-vertex adjacency lists of the global graph, in insertion order
get_vertex_entry_edges_out(g, v) ==
    SelectSeq(EdgeIds(g), LAMBDA e : g[e].start_id = v /\ g[e].end_id # v)

get_vertex_entry_edges_in(g, v) ==
    SelectSeq(EdgeIds(g), LAMBDA e : g[e].end_id = v /\ g[e].start_id # v)

get_vertex_entry_edges_self(g, v) ==
    SelectSeq(EdgeIds(g), LAMBDA e : g[e].start_id = v /\ g[e].end_id = v)

do_vsid_and_veid_exist(ctx) == ctx.vsid \in Vertices /\ ctx.veid \in Vertices

\* gtype_deep_contains on two objects of scalar values
gtype_deep_contains(val, contained) ==
    IF Cardinality(val) < Cardinality(contained) THEN FALSE
    ELSE \A c \in contained : \E v \in val : v[1] = c[1] /\ v[2] = c[2]

\* variant: the properties of the edge are not compared
check_edge_constraints_label_only(ctx, ee) ==
    IF ~ctx.label_name.isnull /\ ctx.label_name.val # ee.label
    THEN FALSE
    ELSE TRUE

check_edge_constraints(ctx, ee) ==
    IF ~ctx.label_name.isnull /\ ctx.label_name.val # ee.label
    THEN FALSE
    ELSE IF ctx.properties.isnull
    THEN TRUE
    ELSE IF Cardinality(ctx.properties.val) > Cardinality(ee.properties)
    THEN FALSE
    ELSE gtype_deep_contains(ee.properties, ctx.properties.val)

get_edge_state(es, edge_id) == es[edge_id]

\* variant: add_edges pushes edges that are already on the path
edge_is_added_visited_too(ctx, g, es, e) == check_edge_constraints(ctx, g[e])

\* add_edges, the test an edge must pass to be pushed
edge_is_added(ctx, g, es, e) ==
    ~get_edge_state(es, e) /\ check_edge_constraints(ctx, g[e])

\* the edges add_edges pushes for vertex_id, in the order it pushes them
add_edges_pushed(ctx, g, es, vertex_id) ==
    LET out  == IF ctx.edge_direction # "LEFT"
                THEN get_vertex_entry_edges_out(g, vertex_id) ELSE <<>>
        inl  == IF ctx.edge_direction # "RIGHT"
                THEN get_vertex_entry_edges_in(g, vertex_id) ELSE <<>>
        self == get_vertex_entry_edges_self(g, vertex_id)
    IN  SelectSeq(out \o inl \o self, LAMBDA e : edge_is_added(ctx, g, es, e))

\* variant: the source vertex is pushed once for all the edges of a call
add_edges_vertex_once(ctx, g, es, vq, eq, vertex_id) ==
    LET pushed == add_edges_pushed(ctx, g, es, vertex_id)
    IN  [vertex_queue |->
            IF ctx.edge_direction = "NONE" /\ pushed # <<>>
            THEN <<vertex_id>> \o vq
            ELSE vq,
         edge_queue |-> Reverse(pushed) \o eq]

\* variant: the first edge pushed ends on top of the edge stack
add_edges_first_on_top(ctx, g, es, vq, eq, vertex_id) ==
    LET pushed == add_edges_pushed(ctx, g, es, vertex_id)
    IN  [vertex_queue |->
            IF ctx.edge_direction = "NONE"
            THEN [i \in 1..Len(pushed) |-> vertex_id] \o vq
            ELSE vq,
         edge_queue |-> pushed \o eq]

\* add_edges: the stacks after the pushes (head of a sequence = top of stack)
add_edges(ctx, g, es, vq, eq, vertex_id) ==
    LET pushed == add_edges_pushed(ctx, g, es, vertex_id)
    IN  [vertex_queue |->
            IF ctx.edge_direction = "NONE"
            THEN [i \in 1..Len(pushed) |-> vertex_id] \o vq
            ELSE vq,
         edge_queue |-> Reverse(pushed) \o eq]

build_vle_context(f) ==
    [vsid           |-> f.vsid,
     veid           |-> f.veid,
     lidx           |-> IF f.lo.isnull THEN 1 ELSE f.lo.val,
     uidx           |-> IF f.hi.isnull THEN -1 ELSE f.hi.val,
     uidx_infinite  |-> f.hi.isnull,
     edge_direction |-> f.dir,
     label_name     |-> f.label,
     properties     |-> f.props]

NoVertex == 0

\* variant: a left-directed traversal moves to the end vertex of the edge
get_next_vertex_left_to_end(ctx, ee, vq) ==
    CASE ctx.edge_direction = "RIGHT" -> ee.end_id
      [] ctx.edge_direction = "LEFT"  -> ee.end_id
      [] OTHER ->
            IF vq = <<>> THEN NoVertex
            ELSE IF ee.start_id = Head(vq) THEN ee.end_id
            ELSE IF ee.end_id = Head(vq) THEN ee.start_id
            ELSE NoVertex

\* get_next_vertex: NoVertex stands for the "no parent match" error
get_next_vertex(ctx, ee, vq) ==
    CASE ctx.edge_direction = "RIGHT" -> ee.end_id
      [] ctx.edge_direction = "LEFT"  -> ee.start_id
      [] OTHER ->
            IF vq = <<>> THEN NoVertex
            ELSE IF ee.start_id = Head(vq) THEN ee.end_id
            ELSE IF ee.end_id = Head(vq) THEN ee.start_id
            ELSE NoVertex

\* variant: the taken edge is not marked visited
mark_visited_not(es, edge_id) == es

\* dfs_find_a_path_between: the edge on top of the edge stack is taken
mark_visited(es, edge_id) == [es EXCEPT ![edge_id] = TRUE]

\* variant: the lower bound is not tested
is_path_found_no_lower(ctx, next, size) ==
    /\ next = ctx.veid
    /\ (ctx.uidx_infinite \/ size <= ctx.uidx)

\* dfs_find_a_path_between: the path ends at veid and its length is in bounds
is_path_found(ctx, next, size) ==
    /\ next = ctx.veid
    /\ size >= ctx.lidx
    /\ (ctx.uidx_infinite \/ size <= ctx.uidx)

\* dfs_find_a_path_between: at veid but beyond the upper bound, back up
is_over_upper(ctx, next, size) ==
    next = ctx.veid /\ ~ctx.uidx_infinite /\ size > ctx.uidx

\* dfs_find_a_path_between: the next vertex's edges are added
may_expand(ctx, size) == ctx.uidx_infinite \/ size < ctx.uidx

RECURSIVE fill_interior(_, _, _)
fill_interior(g, es, vid) ==
    IF es = <<>> THEN <<>>
    ELSE LET ee == g[Head(es)]
             nv == IF vid = ee.start_id THEN ee.end_id ELSE ee.start_id
         IN  <<Head(es), nv>> \o fill_interior(g, Tail(es), nv)

\* build_path_container: vsid, first edge, vertex, ..., last edge, end vertex
build_path_container(ctx, g, pq) ==
    <<ctx.vsid>> \o fill_interior(g, Reverse(pq), ctx.vsid)

EmptyCtx == build_vle_context([vsid |-> 1, veid |-> 1, lo |-> NullArg,
                               hi |-> NullArg, dir |-> "RIGHT", label |-> NullStr,
                               props |-> NullProps])

LoArgs == {NullArg} \cup {IntArg(v) : v \in 0..MaxLidx}
HiArgs == {NullArg} \cup {IntArg(v) : v \in 0..MaxUidx}
LabelArgs == {NullStr, StrArg("edge")}

VleInit ==
    /\ ggctx \in Graphs
    /\ fcinfo \in [vsid : {1}, veid : Vertices, lo : LoArgs, hi : HiArgs,
                   dir : Dirs, label : LabelArgs, props : {NullProps}]
    /\ path_ctx = EmptyCtx
    /\ edge_state = [e \in 1..Len(ggctx) |-> FALSE]
    /\ dfs_vertex_queue = <<>>
    /\ dfs_edge_queue = <<>>
    /\ dfs_path_queue = <<>>
    /\ pc = "start"
    /\ yielded = <<>>
    /\ calls = 0

\* the edge prototypes a call may carry
PropsArgs == {NullProps, PropsArg({<<"k", 1>>}), PropsArg({<<"k", 1>>, <<"j", 2>>}),
              PropsArg({<<"j", 1>>})}

\* an invocation that may constrain the properties of the edges
VlePropsInit ==
    /\ ggctx \in Graphs
    /\ fcinfo \in [vsid : {1}, veid : Vertices, lo : {NullArg},
                   hi : {NullArg, IntArg(MaxUidx)},
                   dir : Dirs, label : LabelArgs, props : PropsArgs]
    /\ path_ctx = EmptyCtx
    /\ edge_state = [e \in 1..Len(ggctx) |-> FALSE]
    /\ dfs_vertex_queue = <<>>
    /\ dfs_edge_queue = <<>>
    /\ dfs_path_queue = <<>>
    /\ pc = "start"
    /\ yielded = <<>>
    /\ calls = 0

\* gtype_vle, first call: build_vle_context and load_initial_dfs_queues
VleFirstCall ==
    /\ pc = "start"
    /\ LET ctx == build_vle_context(fcinfo)
           q   == IF do_vsid_and_veid_exist(ctx)
                  THEN add_edges(ctx, ggctx, edge_state, <<>>, <<>>, ctx.vsid)
                  ELSE [vertex_queue |-> <<>>, edge_queue |-> <<>>]
       IN  /\ path_ctx' = ctx
           /\ dfs_vertex_queue' = q.vertex_queue
           /\ dfs_edge_queue' = q.edge_queue
    /\ pc' = "dfs"
    /\ calls' = 1
    /\ UNCHANGED <<ggctx, fcinfo, edge_state, dfs_path_queue, yielded>>
    /\ UNCHANGED other_than_vle

\* variant: a later call loads the initial queues again
VleNextCall_reload ==
    /\ pc = "yield"
    /\ LET q == add_edges(path_ctx, ggctx, edge_state, <<>>, <<>>, path_ctx.vsid)
       IN  /\ dfs_vertex_queue' = q.vertex_queue
           /\ dfs_edge_queue' = q.edge_queue
    /\ pc' = "dfs"
    /\ calls' = calls + 1
    /\ UNCHANGED <<ggctx, fcinfo, path_ctx, edge_state, dfs_path_queue, yielded>>
    /\ UNCHANGED other_than_vle

\* gtype_vle, a later call: the search resumes from the saved context
VleNextCall ==
    /\ pc = "yield"
    /\ pc' = "dfs"
    /\ calls' = calls + 1
    /\ UNCHANGED <<ggctx, fcinfo, path_ctx, edge_state, dfs_vertex_queue,
                   dfs_edge_queue, dfs_path_queue, yielded>>
    /\ UNCHANGED other_than_vle

\* variant: a visited edge stays on the edge stack
DfsPopVisited_edge_kept ==
    /\ pc = "dfs"
    /\ dfs_edge_queue # <<>>
    /\ get_edge_state(edge_state, Head(dfs_edge_queue))
    /\ LET edge_id == Head(dfs_edge_queue)
           backing == dfs_path_queue # <<>> /\ Head(dfs_path_queue) = edge_id
       IN  /\ dfs_path_queue' = IF backing THEN Tail(dfs_path_queue) ELSE dfs_path_queue
           /\ edge_state' = IF backing THEN [edge_state EXCEPT ![edge_id] = FALSE]
                            ELSE edge_state
    /\ UNCHANGED <<ggctx, fcinfo, path_ctx, pc, yielded, calls, dfs_edge_queue,
                   dfs_vertex_queue>>
    /\ UNCHANGED other_than_vle

\* dfs_find_a_path_between, one iteration whose top edge is marked visited
DfsPopVisited ==
    /\ pc = "dfs"
    /\ dfs_edge_queue # <<>>
    /\ get_edge_state(edge_state, Head(dfs_edge_queue))
    /\ LET edge_id == Head(dfs_edge_queue)
           backing == dfs_path_queue # <<>> /\ Head(dfs_path_queue) = edge_id
       IN  /\ dfs_path_queue' = IF backing THEN Tail(dfs_path_queue) ELSE dfs_path_queue
           /\ edge_state' = IF backing THEN [edge_state EXCEPT ![edge_id] = FALSE]
                            ELSE edge_state
    /\ dfs_edge_queue' = Tail(dfs_edge_queue)
    /\ dfs_vertex_queue' = IF path_ctx.edge_direction = "NONE" /\ dfs_vertex_queue # <<>>
                           THEN Tail(dfs_vertex_queue) ELSE dfs_vertex_queue
    /\ UNCHANGED <<ggctx, fcinfo, path_ctx, pc, yielded, calls>>
    /\ UNCHANGED other_than_vle

\* dfs_find_a_path_between, one iteration whose top edge is not yet visited
DfsTakeEdge ==
    /\ pc = "dfs"
    /\ dfs_edge_queue # <<>>
    /\ ~get_edge_state(edge_state, Head(dfs_edge_queue))
    /\ LET edge_id == Head(dfs_edge_queue)
           es      == mark_visited(edge_state, edge_id)
           pq      == <<edge_id>> \o dfs_path_queue
           next    == get_next_vertex(path_ctx, ggctx[edge_id], dfs_vertex_queue)
           size    == Len(pq)
           found   == is_path_found(path_ctx, next, size)
           over    == is_over_upper(path_ctx, next, size)
           expand  == ~over /\ may_expand(path_ctx, size)
           q       == IF expand
                      THEN add_edges(path_ctx, ggctx, es, dfs_vertex_queue,
                                     dfs_edge_queue, next)
                      ELSE [vertex_queue |-> dfs_vertex_queue,
                            edge_queue |-> dfs_edge_queue]
       IN  /\ edge_state' = es
           /\ dfs_path_queue' = pq
           /\ IF next = NoVertex
              THEN /\ pc' = "error"
                   /\ UNCHANGED <<dfs_vertex_queue, dfs_edge_queue, yielded>>
              ELSE /\ dfs_vertex_queue' = q.vertex_queue
                   /\ dfs_edge_queue' = q.edge_queue
                   /\ pc' = IF found /\ ~over THEN "yield" ELSE "dfs"
                   /\ yielded' = IF found /\ ~over
                                 THEN Append(yielded,
                                             build_path_container(path_ctx, ggctx, pq))
                                 ELSE yielded
    /\ UNCHANGED <<ggctx, fcinfo, path_ctx, calls>>
    /\ UNCHANGED other_than_vle

\* dfs_find_a_path_between finds the edge stack empty: gtype_vle reports done
DfsExhausted ==
    /\ pc = "dfs"
    /\ dfs_edge_queue = <<>>
    /\ pc' = "done"
    /\ UNCHANGED <<ggctx, fcinfo, path_ctx, edge_state, dfs_vertex_queue,
                   dfs_edge_queue, dfs_path_queue, yielded, calls>>
    /\ UNCHANGED other_than_vle

VleNext ==
    \/ VleFirstCall
    \/ VleNextCall
    \/ DfsPopVisited
    \/ DfsTakeEdge
    \/ DfsExhausted

\* the engine before any invocation, while another part of the system runs
VleIdle ==
    /\ ggctx = <<>>
    /\ fcinfo = [vsid |-> 1, veid |-> 1, lo |-> NullArg, hi |-> NullArg,
                 dir |-> "RIGHT", label |-> NullStr, props |-> NullProps]
    /\ path_ctx = EmptyCtx
    /\ edge_state = <<>>
    /\ dfs_vertex_queue = <<>>
    /\ dfs_edge_queue = <<>>
    /\ dfs_path_queue = <<>>
    /\ pc = "start"
    /\ yielded = <<>>
    /\ calls = 0

(***************************************************************************)
(* _ag_enforce_edge_uniqueness: the predicate over fixed edge ids and VLE  *)
(* paths.                                                                  *)
(***************************************************************************)
MaxUqArgs == 2
MaxUqId == 3
MaxVlePathEdges == 2

UqIds == 1..MaxUqId

\* a fixed edge passed by id (GRAPHIDOID)
GraphidDatum(id) == [type |-> "GRAPHIDOID", val |-> <<id>>]

\* a VLE path (VARIABLEEDGEOID): children[0] entries, edge, vertex, edge, ...
\* as create_variable_edge and build_variable_edge lay them out
VariableEdgeDatum(entries) == [type |-> "VARIABLEEDGEOID", val |-> entries]

\* the entries of a path over the edges es; the vertex between two edges is
\* never read by the function, and is given an id edges have too
EntriesOver(es) == [i \in 1..(2 * Len(es) - 1) |-> IF i % 2 = 1 THEN es[(i + 1) \div 2] ELSE 1]

VariableEdgeEntries ==
    {EntriesOver(es) : es \in UNION {[1..k -> UqIds] : k \in 1..MaxVlePathEdges}}

\* the loop over the entries of one VLE path from entry i (1-based), with the
\* hash table seen: <<duplicate found, hash table afterwards>>
\* the same loop reading every entry of the path as an edge
RECURSIVE uq_scan_variable_edge_every_entry(_, _, _)
uq_scan_variable_edge_every_entry(entries, i, seen) ==
    IF i > Len(entries) THEN <<FALSE, seen>>
    ELSE IF entries[i] \in seen THEN <<TRUE, seen>>
    ELSE uq_scan_variable_edge_every_entry(entries, i + 1, seen \cup {entries[i]})

RECURSIVE uq_scan_variable_edge(_, _, _)
uq_scan_variable_edge(entries, i, seen) ==
    IF i > Len(entries) THEN <<FALSE, seen>>
    ELSE IF (i - 1) % 2 = 1 THEN uq_scan_variable_edge(entries, i + 1, seen)
    ELSE IF entries[i] \in seen THEN <<TRUE, seen>>
    ELSE uq_scan_variable_edge(entries, i + 1, seen \cup {entries[i]})

\* the loop over the arguments from argument i, with the hash table seen
RECURSIVE uq_scan_args(_, _, _)
uq_scan_args(args, i, seen) ==
    IF i > Len(args) THEN TRUE
    ELSE IF args[i].type = "GRAPHIDOID"
         THEN IF args[i].val[1] \in seen THEN FALSE
              ELSE uq_scan_args(args, i + 1, seen \cup {args[i].val[1]})
    ELSE IF args[i].type = "VARIABLEEDGEOID"
         THEN LET r == uq_scan_variable_edge(args[i].val, 1, seen)
              IN  IF r[1] THEN FALSE ELSE uq_scan_args(args, i + 1, r[2])
    ELSE uq_scan_args(args, i + 1, seen)

ag_enforce_edge_uniqueness(args) == uq_scan_args(args, 1, {})

UqInit ==
    /\ uq_args = <<>>
    /\ uq_result = "pending"

UqIdle == UqInit

\* the caller passes one more fixed edge id
UqPassGraphid ==
    /\ uq_result = "pending"
    /\ Len(uq_args) < MaxUqArgs
    /\ \E id \in UqIds : uq_args' = Append(uq_args, GraphidDatum(id))
    /\ UNCHANGED uq_result
    /\ UNCHANGED other_than_uq

\* the caller passes one more VLE path
UqPassVariableEdge ==
    /\ uq_result = "pending"
    /\ Len(uq_args) < MaxUqArgs
    /\ \E entries \in VariableEdgeEntries :
          uq_args' = Append(uq_args, VariableEdgeDatum(entries))
    /\ UNCHANGED uq_result
    /\ UNCHANGED other_than_uq

\* _ag_enforce_edge_uniqueness is evaluated on the arguments
UqCall ==
    /\ uq_result = "pending"
    /\ uq_result' = IF ag_enforce_edge_uniqueness(uq_args) THEN "true" ELSE "false"
    /\ UNCHANGED uq_args
    /\ UNCHANGED other_than_uq

UqNext ==
    \/ UqPassGraphid
    \/ UqPassVariableEdge
    \/ UqCall

(***************************************************************************)
(* transform_match_pattern: the quals emitted for the paths of one MATCH.  *)
(***************************************************************************)
MaxPaths == 3
MaxRels == 2

\* a relationship of a path as the grammar builds it
RelKinds == [varlen : BOOLEAN]

PathShapes == UNION {[1..k -> RelKinds] : k \in 0..MaxRels}

\* transform_match_entities: vertex, edge, vertex, ... in path order; a
\* variable length relationship becomes an ENT_VLE_EDGE entity
transform_match_entities(p, path) ==
    [i \in 1..(2 * Len(path) + 1) |->
        IF i % 2 = 1 THEN [type |-> "ENT_VERTEX", path |-> p, pos |-> i]
        ELSE IF ~path[i \div 2].varlen THEN [type |-> "ENT_EDGE", path |-> p, pos |-> i]
        ELSE [type |-> "ENT_VLE_EDGE", path |-> p, pos |-> i]]

\* prevent_duplicate_edges: the call over the edges of the entities given
prevent_duplicate_edges(entities) ==
    [fn |-> "_ag_enforce_edge_uniqueness",
     args |-> SelectSeq(entities,
                        LAMBDA e : e.type = "ENT_EDGE" \/ e.type = "ENT_VLE_EDGE")]

needs_duplicate_edge_qual(entities) == Len(entities) > 3

\* transform_match_path: the quals of one path (join quals are kept apart
\* from the uniqueness qual and not modelled here)
transform_match_path(p, path) ==
    LET entities == transform_match_entities(p, path)
    IN  IF needs_duplicate_edge_qual(entities)
        THEN <<prevent_duplicate_edges(entities)>>
        ELSE <<>>

MtInit ==
    /\ mt_pattern = <<>>
    /\ mt_next = 1
    /\ mt_quals = <<>>
    /\ mt_pc = "parse"

MtIdle == MtInit

\* the grammar adds one more comma-separated path to the pattern
MtParsePath ==
    /\ mt_pc = "parse"
    /\ Len(mt_pattern) < MaxPaths
    /\ \E path \in PathShapes : mt_pattern' = Append(mt_pattern, path)
    /\ UNCHANGED <<mt_next, mt_quals, mt_pc>>
    /\ UNCHANGED other_than_mt

\* transform_match_pattern is entered with the pattern parsed
MtBeginTransform ==
    /\ mt_pc = "parse"
    /\ mt_pattern # <<>>
    /\ mt_pc' = "transform"
    /\ UNCHANGED <<mt_pattern, mt_next, mt_quals>>
    /\ UNCHANGED other_than_mt

\* one iteration of foreach (lc, pattern)
MtTransformPath ==
    /\ mt_pc = "transform"
    /\ mt_next <= Len(mt_pattern)
    /\ mt_quals' = mt_quals \o transform_match_path(mt_next, mt_pattern[mt_next])
    /\ mt_next' = mt_next + 1
    /\ UNCHANGED <<mt_pattern, mt_pc>>
    /\ UNCHANGED other_than_mt

\* the loop ends: the quals collected are ANDed into the WHERE of the query
MtEmitWhere ==
    /\ mt_pc = "transform"
    /\ mt_next > Len(mt_pattern)
    /\ mt_pc' = "done"
    /\ UNCHANGED <<mt_pattern, mt_next, mt_quals>>
    /\ UNCHANGED other_than_mt

MtNext ==
    \/ MtParsePath
    \/ MtBeginTransform
    \/ MtTransformPath
    \/ MtEmitWhere

(***************************************************************************)
(* The expression grammar: operator precedence, and the builders the rules *)
(* of expr call.                                                           *)
(***************************************************************************)
MaxOperands == 5
MaxOperandsAllOps == 3

\* parse tree nodes
Var(name) == [tag |-> "Var", op |-> name, args |-> <<>>]
NoNode == [tag |-> "None", op |-> "", args |-> <<>>]
makeSimpleA_Expr(name, lexpr, rexpr) ==
    [tag |-> "A_Expr", op |-> name, args |-> <<lexpr, rexpr>>]
makeBoolExpr(boolop, args) == [tag |-> "BoolExpr", op |-> boolop, args |-> args]
llast(l) == l[Len(l)]

make_or_expr(lexpr, rexpr) ==
    IF lexpr.tag = "BoolExpr" /\ lexpr.op = "OR_EXPR"
    THEN makeBoolExpr("OR_EXPR", Append(lexpr.args, rexpr))
    ELSE makeBoolExpr("OR_EXPR", <<lexpr, rexpr>>)

\* variant that never flattens
make_and_expr_nested(lexpr, rexpr) == makeBoolExpr("AND_EXPR", <<lexpr, rexpr>>)

make_and_expr(lexpr, rexpr) ==
    IF lexpr.tag = "BoolExpr" /\ lexpr.op = "AND_EXPR"
    THEN makeBoolExpr("AND_EXPR", Append(lexpr.args, rexpr))
    ELSE makeBoolExpr("AND_EXPR", <<lexpr, rexpr>>)

\* variant: the conjunction is not negated
make_xor_expr_not_dropped(lexpr, rexpr) ==
    makeBoolExpr("AND_EXPR", <<makeBoolExpr("OR_EXPR", <<lexpr, rexpr>>),
                               makeBoolExpr("AND_EXPR", <<lexpr, rexpr>>)>>)

make_xor_expr(lexpr, rexpr) ==
    LET aorb     == makeBoolExpr("OR_EXPR", <<lexpr, rexpr>>)
        notaandb == makeBoolExpr("NOT_EXPR", <<makeBoolExpr("AND_EXPR", <<lexpr, rexpr>>)>>)
    IN  makeBoolExpr("AND_EXPR", <<aorb, notaandb>>)

make_not_expr(expr) == makeBoolExpr("NOT_EXPR", <<expr>>)

is_A_Expr_a_comparison_operation(a) == a.op \in {"<", ">", "<=", "=>", "=", "<>"}

build_comparison_expression(left_grammar_node, right_grammar_node, opr_name) ==
    LET case1 == /\ left_grammar_node.tag = "A_Expr"
                 /\ is_A_Expr_a_comparison_operation(left_grammar_node)
        isand == /\ left_grammar_node.tag = "BoolExpr"
                 /\ left_grammar_node.op = "AND_EXPR"
        case2 == /\ isand
                 /\ llast(left_grammar_node.args).tag = "A_Expr"
                 /\ is_A_Expr_a_comparison_operation(llast(left_grammar_node.args))
    IN  IF case1
        THEN make_and_expr(left_grammar_node,
                           makeSimpleA_Expr(opr_name, left_grammar_node.args[2],
                                            right_grammar_node))
        ELSE IF case2
        THEN make_and_expr(left_grammar_node,
                           makeSimpleA_Expr(opr_name,
                                            llast(left_grammar_node.args).args[2],
                                            right_grammar_node))
        ELSE makeSimpleA_Expr(opr_name, left_grammar_node, right_grammar_node)

\* tokens
ComparisonTokens == {"=", "NOT_EQ", "<", "LT_EQ", ">", "GT_EQ"}
BooleanTokens == {"OR", "AND", "XOR"}
BinaryTokens == BooleanTokens \cup ComparisonTokens
\* the operators of the longer expressions: the connectives that flatten and
\* two comparisons that chain
LongBinaryTokens == {"OR", "AND", "<", "LT_EQ"}
AtomNames == <<"v1", "v2", "v3", "v4", "v5", "v6">>
AtomTokens == Range(AtomNames)
EndToken == "$end"

\* the operator name each comparison rule of expr passes to
\* build_comparison_expression
opr_name_of(tok) ==
    CASE tok = "=" -> "="
      [] tok = "NOT_EQ" -> "<>"
      [] tok = "<" -> "<"
      [] tok = "LT_EQ" -> "<="
      [] tok = ">" -> ">"
      [] tok = "GT_EQ" -> ">="

\* the precedence declarations, lowest first; all binary levels are %left
Precedence(tok) ==
    CASE tok = "OR" -> 1
      [] tok = "AND" -> 2
      [] tok = "XOR" -> 3
      [] tok = "NOT" -> 4
      [] tok \in ComparisonTokens -> 5

\* the token list of an expression of n operands joined by ops, with NOT
\* before operand notpos (0: none) and parentheses from operand paren[1] to
\* operand paren[2] (<<0, 0>>: none)
RECURSIVE Tokens(_, _, _, _, _)
Tokens(n, ops, notpos, paren, k) ==
    IF k > n THEN <<>>
    ELSE (IF notpos = k THEN <<"NOT">> ELSE <<>>)
         \o (IF paren[1] = k THEN <<"(">> ELSE <<>>)
         \o <<AtomNames[k]>>
         \o (IF paren[2] = k THEN <<")">> ELSE <<>>)
         \o (IF k < n THEN <<ops[k]>> ELSE <<>>)
         \o Tokens(n, ops, notpos, paren, k + 1)

ParenSpans(n) ==
    {<<0, 0>>} \cup {sp \in (1..n) \X (1..n) : sp[1] < sp[2]}

\* NOT stands before an operand or before the parenthesis
Modifiers(n) ==
    {m \in (0..n) \X ParenSpans(n) : m[1] = 0 \/ m[2] = <<0, 0>> \/ m[1] = m[2][1]}

SourcesOf(n) ==
    {Tokens(n, ops, m[1], m[2], 1) :
        ops \in [1..(n - 1) -> IF n <= MaxOperandsAllOps THEN BinaryTokens
                               ELSE LongBinaryTokens],
        m \in Modifiers(n)}

Sources(max_operands) == UNION {SourcesOf(n) : n \in 1..max_operands}

\* the parser stacks
Lookahead(input) == IF input = <<>> THEN EndToken ELSE Head(input)
Pop(st, n) == SubSeq(st, 1, Len(st) - n)

\* expr op expr is on top of the stack
BinaryHandle(st) ==
    /\ Len(st) >= 3
    /\ st[Len(st)] = "expr"
    /\ st[Len(st) - 1] \in BinaryTokens
    /\ st[Len(st) - 2] = "expr"

\* NOT expr is on top of the stack
NotHandle(st) ==
    /\ Len(st) >= 2
    /\ st[Len(st)] = "expr"
    /\ st[Len(st) - 1] = "NOT"

\* the rule whose last terminal is rule_tok is reduced before la is read:
\* at the end of the expression, or when the rule binds tighter than la,
\* or as tightly and the level is %left
ReduceBefore(rule_tok, la) ==
    \/ la \in {EndToken, ")"}
    \/ /\ la \in BinaryTokens
       /\ \/ Precedence(rule_tok) > Precedence(la)
          \/ /\ Precedence(rule_tok) = Precedence(la)
             /\ rule_tok # "NOT"

HandleToReduce(st, la) ==
    \/ BinaryHandle(st) /\ ReduceBefore(st[Len(st) - 1], la)
    \/ NotHandle(st) /\ ReduceBefore("NOT", la)

\* $1 and $3 of a rule expr: expr op expr
Dollar1(values) == values[Len(values) - 1]
Dollar3(values) == values[Len(values)]

NoComparison == [opr_name |-> "", left |-> NoNode, right |-> NoNode, result |-> NoNode]

ExInit ==
    /\ ex_source \in Sources(MaxOperands)
    /\ ex_input = ex_source
    /\ ex_stack = <<>>
    /\ ex_values = <<>>
    /\ ex_last = NoComparison
    /\ ex_pc = "parsing"

ExIdle ==
    /\ ex_source = <<>>
    /\ ex_input = <<>>
    /\ ex_stack = <<>>
    /\ ex_values = <<>>
    /\ ex_last = NoComparison
    /\ ex_pc = "parsing"

\* the next token is read; an operand is reduced to expr at once
ExShift ==
    /\ ex_pc = "parsing"
    /\ ex_input # <<>>
    /\ Head(ex_input) # ")"
    /\ ~HandleToReduce(ex_stack, Head(ex_input))
    /\ IF Head(ex_input) \in AtomTokens
       THEN /\ ex_stack' = Append(ex_stack, "expr")
            /\ ex_values' = Append(ex_values, Var(Head(ex_input)))
       ELSE /\ ex_stack' = Append(ex_stack, Head(ex_input))
            /\ ex_values' = ex_values
    /\ ex_input' = Tail(ex_input)
    /\ UNCHANGED <<ex_source, ex_last, ex_pc>>
    /\ UNCHANGED other_than_ex

\* expr: expr OR expr
ExReduceOr ==
    /\ ex_pc = "parsing"
    /\ BinaryHandle(ex_stack)
    /\ ex_stack[Len(ex_stack) - 1] = "OR"
    /\ ReduceBefore("OR", Lookahead(ex_input))
    /\ ex_stack' = Append(Pop(ex_stack, 3), "expr")
    /\ ex_values' = Append(Pop(ex_values, 2),
                           make_or_expr(Dollar1(ex_values), Dollar3(ex_values)))
    /\ UNCHANGED <<ex_source, ex_input, ex_last, ex_pc>>
    /\ UNCHANGED other_than_ex

\* expr: expr AND expr
ExReduceAnd ==
    /\ ex_pc = "parsing"
    /\ BinaryHandle(ex_stack)
    /\ ex_stack[Len(ex_stack) - 1] = "AND"
    /\ ReduceBefore("AND", Lookahead(ex_input))
    /\ ex_stack' = Append(Pop(ex_stack, 3), "expr")
    /\ ex_values' = Append(Pop(ex_values, 2),
                           make_and_expr(Dollar1(ex_values), Dollar3(ex_values)))
    /\ UNCHANGED <<ex_source, ex_input, ex_last, ex_pc>>
    /\ UNCHANGED other_than_ex

\* expr: expr XOR expr
ExReduceXor ==
    /\ ex_pc = "parsing"
    /\ BinaryHandle(ex_stack)
    /\ ex_stack[Len(ex_stack) - 1] = "XOR"
    /\ ReduceBefore("XOR", Lookahead(ex_input))
    /\ ex_stack' = Append(Pop(ex_stack, 3), "expr")
    /\ ex_values' = Append(Pop(ex_values, 2),
                           make_xor_expr(Dollar1(ex_values), Dollar3(ex_values)))
    /\ UNCHANGED <<ex_source, ex_input, ex_last, ex_pc>>
    /\ UNCHANGED other_than_ex

\* expr: NOT expr
ExReduceNot ==
    /\ ex_pc = "parsing"
    /\ NotHandle(ex_stack)
    /\ ReduceBefore("NOT", Lookahead(ex_input))
    /\ ex_stack' = Append(Pop(ex_stack, 2), "expr")
    /\ ex_values' = Append(Pop(ex_values, 1), make_not_expr(Dollar3(ex_values)))
    /\ UNCHANGED <<ex_source, ex_input, ex_last, ex_pc>>
    /\ UNCHANGED other_than_ex

\* expr: expr '=' expr | expr NOT_EQ expr | expr '<' expr | expr LT_EQ expr
\*     | expr '>' expr | expr GT_EQ expr
ExReduceComparison ==
    /\ ex_pc = "parsing"
    /\ BinaryHandle(ex_stack)
    /\ ex_stack[Len(ex_stack) - 1] \in ComparisonTokens
    /\ ReduceBefore(ex_stack[Len(ex_stack) - 1], Lookahead(ex_input))
    /\ LET left   == Dollar1(ex_values)
           right  == Dollar3(ex_values)
           opr    == opr_name_of(ex_stack[Len(ex_stack) - 1])
           result == build_comparison_expression(left, right, opr)
       IN  /\ ex_values' = Append(Pop(ex_values, 2), result)
           /\ ex_last' = [opr_name |-> opr, left |-> left, right |-> right,
                          result |-> result]
    /\ ex_stack' = Append(Pop(ex_stack, 3), "expr")
    /\ UNCHANGED <<ex_source, ex_input, ex_pc>>
    /\ UNCHANGED other_than_ex

\* expr_atom: '(' expr ')' whose value is $2
ExReduceParen ==
    /\ ex_pc = "parsing"
    /\ ex_input # <<>>
    /\ Head(ex_input) = ")"
    /\ Len(ex_stack) >= 2
    /\ ex_stack[Len(ex_stack)] = "expr"
    /\ ex_stack[Len(ex_stack) - 1] = "("
    /\ ex_stack' = Append(Pop(ex_stack, 2), "expr")
    /\ ex_input' = Tail(ex_input)
    /\ UNCHANGED <<ex_source, ex_values, ex_last, ex_pc>>
    /\ UNCHANGED other_than_ex

\* the whole expression is reduced to one expr
ExAccept ==
    /\ ex_pc = "parsing"
    /\ ex_input = <<>>
    /\ ex_stack = <<"expr">>
    /\ ex_pc' = "accepted"
    /\ UNCHANGED <<ex_source, ex_input, ex_stack, ex_values, ex_last>>
    /\ UNCHANGED other_than_ex

ExNext ==
    \/ ExShift
    \/ ExReduceOr
    \/ ExReduceAnd
    \/ ExReduceXor
    \/ ExReduceNot
    \/ ExReduceComparison
    \/ ExReduceParen
    \/ ExAccept

(***************************************************************************)
(* The range of a variable length relationship: cypher_varlen_opt and      *)
(* cypher_range_opt of the grammar, the simple_path rule with              *)
(* build_VLE_relation, make_vle_func_call of the MATCH transform and the   *)
(* engine's build_vle_context.                                             *)
(***************************************************************************)
MaxIconst == 3

\* an index that is not written
Absent == -1

\* a C NULL pointer, an integer A_Const and a null A_Const
NullPointer == [tag |-> "NULL"]
make_int_const(i) == [tag |-> "A_Const", isnull |-> FALSE, ival |-> i]
make_null_const == [tag |-> "A_Const", isnull |-> TRUE, ival |-> 0]

A_Indices(lidx, uidx) == [tag |-> "A_Indices", lidx |-> lidx, uidx |-> uidx]

\* the ranges a pattern can carry: none, "*", "*n" and "*[lo]..[hi]"
RangeSources ==
    {[form |-> "none", first |-> Absent, second |-> Absent],
     [form |-> "star", first |-> Absent, second |-> Absent]}
    \cup {[form |-> "idx", first |-> n, second |-> Absent] : n \in 0..MaxIconst}
    \cup {[form |-> "dots", first |-> lo, second |-> hi] :
            lo \in {Absent} \cup 0..MaxIconst, hi \in {Absent} \cup 0..MaxIconst}

cypher_range_idx(i) == make_int_const(i)

cypher_range_idx_opt(i) == IF i = Absent THEN NullPointer ELSE cypher_range_idx(i)

cypher_range_opt(src) ==
    CASE src.form = "idx"  -> A_Indices(cypher_range_idx(src.first),
                                        cypher_range_idx(src.first))
      [] src.form = "dots" -> A_Indices(cypher_range_idx_opt(src.first),
                                        cypher_range_idx_opt(src.second))
      [] OTHER             -> A_Indices(NullPointer, NullPointer)

\* variant: no comparison of the two indexes
cypher_varlen_opt_unchecked(src) ==
    IF src.form = "none" THEN [error |-> "", node |-> NullPointer]
    ELSE LET n == cypher_range_opt(src)
             lidx == IF n.lidx = NullPointer THEN make_int_const(1) ELSE n.lidx
         IN  [error |-> "", node |-> A_Indices(lidx, n.uidx)]

\* cypher_varlen_opt: the node of the range, or the syntax error it raises
cypher_varlen_opt(src) ==
    IF src.form = "none" THEN [error |-> "", node |-> NullPointer]
    ELSE LET n == cypher_range_opt(src)
             lidx == IF n.lidx = NullPointer THEN make_int_const(1) ELSE n.lidx
         IN  IF n.uidx # NullPointer /\ lidx.ival > n.uidx.ival
             THEN [error |-> "invalid range", node |-> NullPointer]
             ELSE [error |-> "", node |-> A_Indices(lidx, n.uidx)]

\* build_VLE_relation: the vle call the grammar stores in the varlen field
build_VLE_relation(varlen) ==
    LET ai == varlen
    IN  [tag |-> "FuncCall", funcname |-> "vle",
         args |-> [lidx |-> IF ai = NullPointer \/ ai.lidx = NullPointer
                            THEN make_null_const ELSE ai.lidx,
                   uidx |-> IF ai = NullPointer \/ ai.uidx = NullPointer
                            THEN make_null_const ELSE ai.uidx]]

\* what the lidx and uidx fields of an A_Indices pointer yield: the fields of
\* an A_Indices, any pointer field of a node of another type
FieldsReadAsA_Indices(node) ==
    IF node.tag = "A_Indices" THEN {[lidx |-> node.lidx, uidx |-> node.uidx]}
    ELSE LET words == {NullPointer, [tag |-> "List", of |-> "funcname"],
                       [tag |-> "List", of |-> "args"]}
         IN  {[lidx |-> l, uidx |-> u] : l, u \in words}

\* make_vle_func_call: the lidx and uidx arguments of the call, ai being
\* the varlen field cast to A_Indices
make_vle_func_call(ai) ==
    [lidx |-> IF ai.lidx = NullPointer THEN make_null_const ELSE ai.lidx,
     uidx |-> IF ai.uidx = NullPointer THEN make_null_const ELSE ai.uidx]

\* the value the engine receives for an argument of the call
vle_arg_datum(arg) == IF arg.isnull THEN NullArg ELSE IntArg(arg.ival)

NoArgs == [lidx |-> make_null_const, uidx |-> make_null_const]

RgInit ==
    /\ rg_source \in RangeSources
    /\ rg_varlen = NullPointer
    /\ rg_args = NoArgs
    /\ rg_ctx = EmptyCtx
    /\ rg_pc = "varlen_opt"

RgIdle ==
    /\ rg_source = [form |-> "none", first |-> Absent, second |-> Absent]
    /\ rg_varlen = NullPointer
    /\ rg_args = NoArgs
    /\ rg_ctx = EmptyCtx
    /\ rg_pc = "idle"

\* path_relationship_body: n->varlen = $4
RgVarlenOpt ==
    /\ rg_pc = "varlen_opt"
    /\ LET r == cypher_varlen_opt(rg_source)
       IN  /\ rg_varlen' = r.node
           /\ rg_pc' = IF r.error # "" THEN r.error ELSE "relationship"
    /\ UNCHANGED <<rg_source, rg_args, rg_ctx>>
    /\ UNCHANGED other_than_rg

\* simple_path: simple_path path_relationship path_node
RgSimplePath ==
    /\ rg_pc = "relationship"
    /\ rg_varlen' = IF rg_varlen # NullPointer THEN build_VLE_relation(rg_varlen)
                    ELSE rg_varlen
    /\ rg_pc' = "parsed"
    /\ UNCHANGED <<rg_source, rg_args, rg_ctx>>
    /\ UNCHANGED other_than_rg

\* transform_match_entities, a relationship without varlen: handle_edge
RgHandleEdge ==
    /\ rg_pc = "parsed"
    /\ rg_varlen = NullPointer
    /\ rg_pc' = "fixed_edge"
    /\ UNCHANGED <<rg_source, rg_varlen, rg_args, rg_ctx>>
    /\ UNCHANGED other_than_rg

\* transform_match_entities, a relationship with varlen: make_vle_func_call
RgMakeVleFuncCall ==
    /\ rg_pc = "parsed"
    /\ rg_varlen # NullPointer
    /\ \E ai \in FieldsReadAsA_Indices(rg_varlen) :
            rg_args' = make_vle_func_call(ai)
    /\ rg_pc' = "vle_call"
    /\ UNCHANGED <<rg_source, rg_varlen, rg_ctx>>
    /\ UNCHANGED other_than_rg

\* the engine is called with the arguments of the vle call
RgBuildVleContext ==
    /\ rg_pc = "vle_call"
    /\ IF rg_args.lidx.tag = "A_Const" /\ rg_args.uidx.tag = "A_Const"
       THEN /\ rg_ctx' = build_vle_context(
                            [vsid |-> 1, veid |-> 1,
                             lo |-> vle_arg_datum(rg_args.lidx),
                             hi |-> vle_arg_datum(rg_args.uidx),
                             dir |-> "RIGHT", label |-> NullStr,
                             props |-> NullProps])
            /\ rg_pc' = "context"
       ELSE /\ rg_pc' = "not an integer"
            /\ UNCHANGED rg_ctx
    /\ UNCHANGED <<rg_source, rg_varlen, rg_args>>
    /\ UNCHANGED other_than_rg

RgNext ==
    \/ RgVarlenOpt
    \/ RgSimplePath
    \/ RgHandleEdge
    \/ RgMakeVleFuncCall
    \/ RgBuildVleContext

(***************************************************************************)
(* The clause grammar: stmt, single_query, query_part_init,                *)
(* query_part_last and the clause lists, as the LALR(1) parser generated   *)
(* from them runs.  A clause stands for the tokens of one whole clause.    *)
(***************************************************************************)
MaxClauses == 5
MaxClausesAllKinds == 3

ReadingClauses == {"MATCH", "UNWIND"}
UpdatingClauses == {"CREATE", "SET", "REMOVE", "DELETE", "MERGE", "CALL"}
Clauses == ReadingClauses \cup UpdatingClauses \cup {"WITH", "RETURN"}

\* the kinds of clause longer statements are made of
LongClauses == {"MATCH", "CREATE", "CALL", "WITH", "RETURN"}

SeqsOver(S, n) == UNION {[1..k -> S] : k \in 0..n}

Statements(max_clauses) ==
    SeqsOver(Clauses, Min(max_clauses, MaxClausesAllKinds))
    \cup {s \in SeqsOver(LongClauses, max_clauses) : Len(s) > MaxClausesAllKinds}

\* yychar: the clause the parser looks at
SqLookahead(input) == IF input = <<>> THEN EndToken ELSE Head(input)

SqTop(stack) == IF stack = <<>> THEN "" ELSE stack[Len(stack)]

SqBelowTop(stack) == IF Len(stack) < 2 THEN "" ELSE stack[Len(stack) - 1]

SqInit ==
    /\ sq_source \in Statements(MaxClauses)
    /\ sq_input = sq_source
    /\ sq_stack = <<>>
    /\ sq_pc = "parsing"

SqIdle ==
    /\ sq_source = <<>>
    /\ sq_input = <<>>
    /\ sq_stack = <<>>
    /\ sq_pc = "idle"

SqReduce(n, symbol) ==
    /\ sq_stack' = Append(Pop(sq_stack, n), symbol)
    /\ UNCHANGED <<sq_source, sq_input, sq_pc>>
    /\ UNCHANGED other_than_sq

SqShift(symbol) ==
    /\ sq_input' = Tail(sq_input)
    /\ sq_stack' = Append(sq_stack, symbol)
    /\ UNCHANGED <<sq_source, sq_pc>>
    /\ UNCHANGED other_than_sq

SqRaise(error) ==
    /\ sq_pc' = error
    /\ UNCHANGED <<sq_source, sq_input, sq_stack>>
    /\ UNCHANGED other_than_sq

\* query_part_init: empty
SqQueryPartInitEmpty ==
    /\ sq_pc = "parsing"
    /\ sq_stack = <<>>
    /\ SqReduce(0, "query_part_init")

\* query_part_init: query_part_init reading_clause_list updating_clause_list_0 with
SqQueryPartInit ==
    /\ sq_pc = "parsing"
    /\ SqTop(sq_stack) = "with"
    /\ SqReduce(4, "query_part_init")

\* reading_clause_list: empty
SqReadingClauseListEmpty ==
    /\ sq_pc = "parsing"
    /\ SqTop(sq_stack) = "query_part_init"
    /\ SqReduce(0, "reading_clause_list")

\* reading_clause: match | unwind
SqReadingClause ==
    /\ sq_pc = "parsing"
    /\ SqTop(sq_stack) = "reading_clause_list"
    /\ SqLookahead(sq_input) \in ReadingClauses
    /\ SqShift("reading_clause")

\* reading_clause_list: reading_clause_list reading_clause
SqReadingClauseList ==
    /\ sq_pc = "parsing"
    /\ SqTop(sq_stack) = "reading_clause"
    /\ SqReduce(2, "reading_clause_list")

\* updating_clause: create | set | remove | delete | merge
SqUpdatingClause ==
    /\ sq_pc = "parsing"
    /\ SqTop(sq_stack) \in {"reading_clause_list", "updating_clause_list_1"}
    /\ SqLookahead(sq_input) \in UpdatingClauses \ {"CALL"}
    /\ SqShift("updating_clause")

\* updating_clause: call_stmt, whose rules raise an error
SqCallStmt ==
    /\ sq_pc = "parsing"
    /\ SqTop(sq_stack) \in {"reading_clause_list", "updating_clause_list_1"}
    /\ SqLookahead(sq_input) = "CALL"
    /\ SqRaise("CALL not supported yet")

\* updating_clause_list_1: updating_clause
SqUpdatingClauseList1First ==
    /\ sq_pc = "parsing"
    /\ SqTop(sq_stack) = "updating_clause"
    /\ SqBelowTop(sq_stack) = "reading_clause_list"
    /\ SqReduce(1, "updating_clause_list_1")

\* updating_clause_list_1: updating_clause_list_1 updating_clause
SqUpdatingClauseList1Next ==
    /\ sq_pc = "parsing"
    /\ SqTop(sq_stack) = "updating_clause"
    /\ SqBelowTop(sq_stack) = "updating_clause_list_1"
    /\ SqReduce(2, "updating_clause_list_1")

\* updating_clause_list_0: empty, the only reduction of its state
SqUpdatingClauseList0Empty ==
    /\ sq_pc = "parsing"
    /\ SqTop(sq_stack) = "reading_clause_list"
    /\ SqLookahead(sq_input) \notin ReadingClauses \cup UpdatingClauses
    /\ SqReduce(0, "updating_clause_list_0")

\* updating_clause_list_0: updating_clause_list_1
SqUpdatingClauseList0 ==
    /\ sq_pc = "parsing"
    /\ SqTop(sq_stack) = "updating_clause_list_1"
    /\ SqLookahead(sq_input) \in {"WITH", "RETURN"}
    /\ SqReduce(1, "updating_clause_list_0")

\* with
SqWith ==
    /\ sq_pc = "parsing"
    /\ SqTop(sq_stack) = "updating_clause_list_0"
    /\ SqLookahead(sq_input) = "WITH"
    /\ SqShift("with")

\* return
SqReturn ==
    /\ sq_pc = "parsing"
    /\ SqTop(sq_stack) = "updating_clause_list_0"
    /\ SqLookahead(sq_input) = "RETURN"
    /\ SqShift("return")

\* no transition for the clause the parser looks at
SqSyntaxError ==
    /\ sq_pc = "parsing"
    /\ SqTop(sq_stack) = "updating_clause_list_0"
    /\ SqLookahead(sq_input) \notin {"WITH", "RETURN"}
    /\ SqRaise("syntax error")

\* query_part_last: reading_clause_list updating_clause_list_1, reduced
\* whenever no updating clause, WITH or RETURN follows
SqQueryPartLastUpdating ==
    /\ sq_pc = "parsing"
    /\ SqTop(sq_stack) = "updating_clause_list_1"
    /\ SqLookahead(sq_input) \notin UpdatingClauses \cup {"WITH", "RETURN"}
    /\ SqReduce(2, "query_part_last")

\* query_part_last: reading_clause_list updating_clause_list_0 return
SqQueryPartLastReturn ==
    /\ sq_pc = "parsing"
    /\ SqTop(sq_stack) = "return"
    /\ SqReduce(3, "query_part_last")

\* single_query: query_part_init query_part_last
SqSingleQuery ==
    /\ sq_pc = "parsing"
    /\ SqTop(sq_stack) = "query_part_last"
    /\ SqReduce(2, "single_query")

\* variant: stmt without its test of yychar
SqStmt_any_yychar ==
    /\ sq_pc = "parsing"
    /\ sq_stack = <<"single_query">>
    /\ SqRaise("accepted")

\* stmt: cypher_stmt semicolon_opt, with its test of yychar
SqStmt ==
    /\ sq_pc = "parsing"
    /\ sq_stack = <<"single_query">>
    /\ SqRaise(IF SqLookahead(sq_input) # EndToken THEN "syntax error" ELSE "accepted")

SqNext ==
    \/ SqQueryPartInitEmpty
    \/ SqQueryPartInit
    \/ SqReadingClauseListEmpty
    \/ SqReadingClause
    \/ SqReadingClauseList
    \/ SqUpdatingClause
    \/ SqCallStmt
    \/ SqUpdatingClauseList1First
    \/ SqUpdatingClauseList1Next
    \/ SqUpdatingClauseList0Empty
    \/ SqUpdatingClauseList0
    \/ SqWith
    \/ SqReturn
    \/ SqSyntaxError
    \/ SqQueryPartLastUpdating
    \/ SqQueryPartLastReturn
    \/ SqSingleQuery
    \/ SqStmt

(***************************************************************************)
(* The join quals of a MATCH path: transform_match_entities with           *)
(* handle_vertex and handle_edge, then make_path_join_quals with           *)
(* make_join_condition_for_edge.                                           *)
(***************************************************************************)
MaxJoinRels == 2
MaxJoinRelsAllKinds == 1

\* a NULL name or label
NoName == ""
NoLabel == ""

AG_DEFAULT_LABEL_VERTEX == "_ag_label_vertex"

IS_DEFAULT_LABEL_VERTEX(label) == label = AG_DEFAULT_LABEL_VERTEX

\* get_next_default_alias: a name no pattern can write
DefaultAlias == "_age_default_alias_"

NodeNames == <<"n1", "n2", "n3", "n4", "n5">>

\* what can be written for a node and for a relationship
NodeSpecs(all_kinds) ==
    [named : BOOLEAN, label : {NoLabel, "L"},
     props : IF all_kinds THEN BOOLEAN ELSE {FALSE}]

RelSpecs == [dir : Dirs, varlen : BOOLEAN]

cypher_node(k, spec) ==
    [name  |-> IF spec.named THEN NodeNames[k] ELSE NoName,
     label |-> spec.label,
     props |-> spec.props]

cypher_relationship(spec) == [dir |-> spec.dir, varlen |-> spec.varlen]

\* the paths of k relationships: node, relationship, node, ...
JoinPathsOf(k) ==
    LET all_kinds == k <= MaxJoinRelsAllKinds
    IN  {[var_name |-> v,
          path |-> [i \in 1..(2 * k + 1) |->
                      IF i % 2 = 1 THEN cypher_node((i + 1) \div 2, f[(i + 1) \div 2])
                      ELSE cypher_relationship(g[i \div 2])]] :
            v \in (IF all_kinds THEN BOOLEAN ELSE {FALSE}),
            f \in [1..(k + 1) -> NodeSpecs(all_kinds)],
            g \in [1..k -> RelSpecs]}

JoinPaths(max_rels) == UNION {JoinPathsOf(k) : k \in 0..max_rels}

\* list_nth and list_length on path->path, elements counted from 0
list_nth(l, n) == l[n + 1]

list_length(l) == Len(l)

\* variant: a label includes the node too
INCLUDE_NODE_IN_JOIN_TREE_or_label(path, node) ==
    path.var_name \/ node.name # NoName \/ node.props \/ node.label # NoLabel

INCLUDE_NODE_IN_JOIN_TREE(path, node) ==
    path.var_name \/ node.name # NoName \/ node.props

\* make_transform_entity: pos is the place of the node or rel in the path
\* and expr_given tells whether expr is not NULL
make_transform_entity(type, pos, expr_given) ==
    [type |-> type, pos |-> pos, in_join_tree |-> expr_given]

NoEntity == [type |-> "NULL", pos |-> -1, in_join_tree |-> FALSE]

\* transform_cypher_node: the node it leaves, for a variable not seen before
transform_cypher_node(node, output_node) ==
    LET labelled == IF node.label = NoLabel
                    THEN [node EXCEPT !.label = AG_DEFAULT_LABEL_VERTEX]
                    ELSE node
    IN  IF output_node /\ labelled.name = NoName
        THEN [labelled EXCEPT !.name = DefaultAlias]
        ELSE labelled

\* handle_vertex: the path it leaves and the entity it returns
handle_vertex(path, i) ==
    LET node == list_nth(path.path, i)
        named == IF /\ node.name = NoName
                    /\ ~INCLUDE_NODE_IN_JOIN_TREE(path, node)
                    /\ i + 1 < list_length(path.path)
                    /\ list_nth(path.path, i + 1).varlen
                 THEN [node EXCEPT !.name = DefaultAlias]
                 ELSE node
        output_node == INCLUDE_NODE_IN_JOIN_TREE(path, named)
    IN  [path |-> [path EXCEPT !.path[i + 1] = transform_cypher_node(named, output_node)],
         entity |-> make_transform_entity("ENT_VERTEX", i, output_node)]

\* handle_edge: the path it leaves and the entity it returns
handle_edge(path, i, prev_entity) ==
    LET rel == list_nth(path.path, i)
        node == list_nth(path.path, 2)
        force == /\ list_length(path.path) = 3
                 /\ rel.dir = "NONE"
                 /\ ~prev_entity.in_join_tree
                 /\ ~INCLUDE_NODE_IN_JOIN_TREE(path, node)
    IN  [path |-> IF force THEN [path EXCEPT !.path[3].name = DefaultAlias] ELSE path,
         entity |-> make_transform_entity("ENT_EDGE", i, TRUE)]

insert_vle_entity(entities, next_entity, vle_entity) ==
    Append(Append(Pop(entities, 1), vle_entity), next_entity)

\* make_qual: a column of the range table entry of an entity
make_qual(entity, name) == [tag |-> "ColumnRef", rel |-> entity.pos, col |-> name]

\* makeSimpleA_Expr(AEXPR_IN, "=", ...)
makeSimpleA_Expr_IN(lexpr, list) ==
    [tag |-> "A_Expr_IN", op |-> "=", args |-> <<lexpr>> \o list]

filter_vertices_on_label_id(id_field, label) ==
    makeSimpleA_Expr("=",
        [tag |-> "FuncCall", op |-> "_extract_label_id", args |-> <<id_field>>],
        [tag |-> "A_Const", op |-> label, args |-> <<>>])

make_edge_quals(path, edge, side) ==
    LET left_dir  == IF side = "JOIN_SIDE_LEFT" THEN "start_id" ELSE "end_id"
        right_dir == IF side = "JOIN_SIDE_LEFT" THEN "end_id" ELSE "start_id"
        dir == list_nth(path.path, edge.pos).dir
    IN  CASE dir = "LEFT"  -> <<make_qual(edge, left_dir)>>
          [] dir = "RIGHT" -> <<make_qual(edge, right_dir)>>
          [] OTHER         -> <<make_qual(edge, left_dir), make_qual(edge, right_dir)>>

join_to_entity(path, entity, qual, side) ==
    CASE entity.type = "ENT_VERTEX" ->
            <<makeSimpleA_Expr("=", qual, make_qual(entity, "id"))>>
      [] entity.type = "ENT_EDGE" ->
            LET edge_quals == make_edge_quals(path, entity, side)
            IN  IF Len(edge_quals) > 1
                THEN <<makeSimpleA_Expr_IN(qual, edge_quals)>>
                ELSE <<makeSimpleA_Expr("=", qual, edge_quals[1])>>
      [] OTHER ->
            <<makeSimpleA_Expr("!@=", make_qual(entity, "edges"), qual)>>

make_directed_edge_join_conditions(path, prev_entity, next_entity, prev_qual, next_qual, prev_node_filter, next_node_filter) ==
    (IF prev_entity.in_join_tree
     THEN join_to_entity(path, prev_entity, prev_qual, "JOIN_SIDE_LEFT") ELSE <<>>)
    \o (IF next_entity.in_join_tree /\ next_entity.type # "ENT_VLE_EDGE"
        THEN join_to_entity(path, next_entity, next_qual, "JOIN_SIDE_RIGHT") ELSE <<>>)
    \o (IF prev_node_filter # NoLabel /\ ~IS_DEFAULT_LABEL_VERTEX(prev_node_filter)
        THEN <<filter_vertices_on_label_id(prev_qual, prev_node_filter)>> ELSE <<>>)
    \o (IF next_node_filter # NoLabel /\ ~IS_DEFAULT_LABEL_VERTEX(next_node_filter)
        THEN <<filter_vertices_on_label_id(next_qual, next_node_filter)>> ELSE <<>>)

\* variant: a left directed edge is joined as a right directed one
make_join_condition_for_edge_left_as_right(path, prev_edge, prev_node, entity, next_node, next_edge) ==
    IF entity.type = "ENT_VLE_EDGE" THEN <<>>
    ELSE
    LET prev_filter == IF ~prev_node.in_join_tree
                       THEN list_nth(path.path, prev_node.pos).label ELSE NoLabel
        next_filter == IF ~next_node.in_join_tree /\ next_edge = NoEntity
                       THEN list_nth(path.path, next_node.pos).label ELSE NoLabel
        prev_entity == IF ~prev_node.in_join_tree /\ prev_edge # NoEntity
                       THEN prev_edge ELSE prev_node
        next_entity == IF ~next_node.in_join_tree /\ next_edge # NoEntity
                       THEN next_edge ELSE next_node
        start_id == make_qual(entity, "start_id")
        end_id == make_qual(entity, "end_id")
        dir == list_nth(path.path, entity.pos).dir
    IN  CASE dir \in {"RIGHT", "LEFT"} ->
                make_directed_edge_join_conditions(path, prev_entity, next_node,
                    start_id, end_id, prev_filter, next_filter)
          [] OTHER ->
                <<makeBoolExpr("OR_EXPR",
                    <<makeBoolExpr("AND_EXPR",
                        make_directed_edge_join_conditions(path, prev_entity, next_entity,
                            start_id, end_id, prev_filter, next_filter)),
                      makeBoolExpr("AND_EXPR",
                        make_directed_edge_join_conditions(path, prev_entity, next_entity,
                            end_id, start_id, prev_filter, next_filter))>>)>>

make_join_condition_for_edge(path, prev_edge, prev_node, entity, next_node, next_edge) ==
    IF entity.type = "ENT_VLE_EDGE" THEN <<>>
    ELSE
    LET prev_filter == IF ~prev_node.in_join_tree
                       THEN list_nth(path.path, prev_node.pos).label ELSE NoLabel
        next_filter == IF ~next_node.in_join_tree /\ next_edge = NoEntity
                       THEN list_nth(path.path, next_node.pos).label ELSE NoLabel
        prev_entity == IF ~prev_node.in_join_tree /\ prev_edge # NoEntity
                       THEN prev_edge ELSE prev_node
        next_entity == IF ~next_node.in_join_tree /\ next_edge # NoEntity
                       THEN next_edge ELSE next_node
        start_id == make_qual(entity, "start_id")
        end_id == make_qual(entity, "end_id")
        dir == list_nth(path.path, entity.pos).dir
    IN  CASE dir = "RIGHT" ->
                make_directed_edge_join_conditions(path, prev_entity, next_node,
                    start_id, end_id, prev_filter, next_filter)
          [] dir = "LEFT" ->
                make_directed_edge_join_conditions(path, prev_entity, next_node,
                    end_id, start_id, prev_filter, next_filter)
          [] OTHER ->
                <<makeBoolExpr("OR_EXPR",
                    <<makeBoolExpr("AND_EXPR",
                        make_directed_edge_join_conditions(path, prev_entity, next_entity,
                            start_id, end_id, prev_filter, next_filter)),
                      makeBoolExpr("AND_EXPR",
                        make_directed_edge_join_conditions(path, prev_entity, next_entity,
                            end_id, start_id, prev_filter, next_filter))>>)>>

\* the quals make_path_join_quals adds for the edge at place k of entities
JoinQualsOfEdge(path, entities, k) ==
    make_join_condition_for_edge(path,
        IF k > 2 THEN entities[k - 2] ELSE NoEntity,
        entities[k - 1], entities[k], entities[k + 1],
        IF k + 2 <= Len(entities) THEN entities[k + 2] ELSE NoEntity)

RECURSIVE JoinQualsFrom(_, _, _)
JoinQualsFrom(path, entities, k) ==
    IF k > Len(entities) THEN <<>>
    ELSE JoinQualsOfEdge(path, entities, k) \o JoinQualsFrom(path, entities, k + 2)

make_path_join_quals(path, entities) ==
    IF list_length(entities) < 3 THEN <<>> ELSE JoinQualsFrom(path, entities, 2)

NoPath == [var_name |-> FALSE, path |-> <<>>]

JnInit ==
    /\ jn_source \in JoinPaths(MaxJoinRels)
    /\ jn_path = jn_source
    /\ jn_i = 0
    /\ jn_entities = <<>>
    /\ jn_quals = <<>>
    /\ jn_pc = "entities"

JnIdle ==
    /\ jn_source = NoPath
    /\ jn_path = NoPath
    /\ jn_i = 0
    /\ jn_entities = <<>>
    /\ jn_quals = <<>>
    /\ jn_pc = "idle"

\* transform_match_entities, i even: a node
JnHandleVertex ==
    /\ jn_pc = "entities"
    /\ jn_i < list_length(jn_path.path)
    /\ jn_i % 2 = 0
    /\ LET r == handle_vertex(jn_path, jn_i)
       IN  /\ jn_path' = r.path
           /\ jn_entities' = Append(jn_entities, r.entity)
    /\ jn_i' = jn_i + 1
    /\ UNCHANGED <<jn_source, jn_quals, jn_pc>>
    /\ UNCHANGED other_than_jn

\* transform_match_entities, i odd: a relationship without varlen
JnHandleEdge ==
    /\ jn_pc = "entities"
    /\ jn_i < list_length(jn_path.path)
    /\ jn_i % 2 = 1
    /\ ~list_nth(jn_path.path, jn_i).varlen
    /\ LET r == handle_edge(jn_path, jn_i, llast(jn_entities))
       IN  /\ jn_path' = r.path
           /\ jn_entities' = Append(jn_entities, r.entity)
    /\ jn_i' = jn_i + 1
    /\ UNCHANGED <<jn_source, jn_quals, jn_pc>>
    /\ UNCHANGED other_than_jn

\* transform_match_entities, i odd: a relationship with varlen and the
\* node after it
JnHandleVleEdge ==
    /\ jn_pc = "entities"
    /\ jn_i < list_length(jn_path.path)
    /\ jn_i % 2 = 1
    /\ list_nth(jn_path.path, jn_i).varlen
    /\ LET node == list_nth(jn_path.path, jn_i + 1)
           named == IF ~INCLUDE_NODE_IN_JOIN_TREE(jn_path, node)
                    THEN [jn_path EXCEPT !.path[jn_i + 2].name = DefaultAlias]
                    ELSE jn_path
           r == handle_vertex(named, jn_i + 1)
           vle_entity == make_transform_entity("ENT_VLE_EDGE", jn_i, TRUE)
       IN  /\ jn_path' = r.path
           /\ jn_entities' = insert_vle_entity(Append(jn_entities, r.entity),
                                               r.entity, vle_entity)
    /\ jn_i' = jn_i + 2
    /\ UNCHANGED <<jn_source, jn_quals, jn_pc>>
    /\ UNCHANGED other_than_jn

\* transform_match_path: make_path_join_quals over the entities
JnMakePathJoinQuals ==
    /\ jn_pc = "entities"
    /\ jn_i >= list_length(jn_path.path)
    /\ jn_quals' = make_path_join_quals(jn_path, jn_entities)
    /\ jn_pc' = "done"
    /\ UNCHANGED <<jn_source, jn_path, jn_i, jn_entities>>
    /\ UNCHANGED other_than_jn

JnNext ==
    \/ JnHandleVertex
    \/ JnHandleEdge
    \/ JnHandleVleEdge
    \/ JnMakePathJoinQuals

(***************************************************************************)
(* The WITH clause: the with rule of the grammar, transform_cypher_with    *)
(* and transform_cypher_clause_with_where.                                 *)
(***************************************************************************)
MaxWithItems == 2

\* the items of a projection: a variable, an aliased and an unaliased expression
WithItems == {[val |-> "ColumnRef", name |-> NoName],
              [val |-> "A_Expr", name |-> "alias"],
              [val |-> "A_Expr", name |-> NoName]}

\* an optional subclause: absent, or the node written
OptionalNode(name) == {NoNode, Var(name)}

WithSources ==
    [distinct : BOOLEAN,
     items : UNION {[1..k -> WithItems] : k \in 1..MaxWithItems},
     order_by : OptionalNode("order_by"),
     skip : OptionalNode("skip"),
     limit : OptionalNode("limit"),
     where : OptionalNode("where")]

\* the with rule: its check of the items
with_items_aliased(items) ==
    \A i \in 1..Len(items) : items[i].val = "ColumnRef" \/ items[i].name # NoName

\* the with rule: the cypher_with it builds
cypher_with(src) ==
    [tag |-> "cypher_with", distinct |-> src.distinct, items |-> src.items,
     order_by |-> src.order_by, skip |-> src.skip, limit |-> src.limit,
     where |-> src.where]

\* transform_cypher_with: the cypher_return it hands on
with_as_return(self) ==
    [tag |-> "cypher_return", distinct |-> self.distinct, items |-> self.items,
     order_by |-> self.order_by, skip |-> self.skip, limit |-> self.limit]

\* transform_cypher_return: the projection of a cypher_return
transform_cypher_return(self) ==
    [commandType |-> "CMD_SELECT", distinct |-> self.distinct,
     targetList |-> self.items, sortClause |-> self.order_by,
     limitOffset |-> self.skip, limitCount |-> self.limit]

\* what the where field of a cypher_match pointer yields: the field of a
\* cypher_match, any pointer field of a node of another type
WhereReadAsCypherMatch(self) ==
    IF self.tag = "cypher_match" THEN {self.where}
    ELSE {Var("items"), self.order_by, self.skip, self.limit}

\* transform_cypher_clause_with_where, where being self->where as read
transform_cypher_clause_with_where(self, where) ==
    IF where # NoNode
    THEN [commandType |-> "CMD_SELECT",
          rtable |-> <<transform_cypher_return(self)>>,
          targetList |-> self.items,
          quals |-> NoNode]
    ELSE transform_cypher_return(self)

NoClause == [tag |-> "NULL"]

WtInit ==
    /\ wt_source \in WithSources
    /\ wt_clause = NoClause
    /\ wt_wrapper = NoClause
    /\ wt_query = NoClause
    /\ wt_pc = "parse"

WtIdle ==
    /\ wt_source = NoClause
    /\ wt_clause = NoClause
    /\ wt_wrapper = NoClause
    /\ wt_query = NoClause
    /\ wt_pc = "idle"

\* with: WITH [DISTINCT] return_item_list order_by_opt skip_opt limit_opt where_opt
WtParseWith ==
    /\ wt_pc = "parse"
    /\ IF with_items_aliased(wt_source.items)
       THEN /\ wt_clause' = cypher_with(wt_source)
            /\ wt_pc' = "with"
       ELSE /\ wt_pc' = "expression item must be aliased"
            /\ UNCHANGED wt_clause
    /\ UNCHANGED <<wt_source, wt_wrapper, wt_query>>
    /\ UNCHANGED other_than_wt

\* transform_cypher_with, up to its call of transform_cypher_clause_with_where
WtTransformWith ==
    /\ wt_pc = "with"
    /\ wt_wrapper' = with_as_return(wt_clause)
    /\ wt_pc' = "where"
    /\ UNCHANGED <<wt_source, wt_clause, wt_query>>
    /\ UNCHANGED other_than_wt

\* transform_cypher_clause_with_where on the wrapper
WtClauseWithWhere ==
    /\ wt_pc = "where"
    /\ \E where \in WhereReadAsCypherMatch(wt_wrapper) :
            wt_query' = transform_cypher_clause_with_where(wt_wrapper, where)
    /\ wt_pc' = "done"
    /\ UNCHANGED <<wt_source, wt_clause, wt_wrapper>>
    /\ UNCHANGED other_than_wt

WtNext ==
    \/ WtParseWith
    \/ WtTransformWith
    \/ WtClauseWithWhere

(***************************************************************************)
(* get_res_cols: the columns of the lateral join built for OPTIONAL MATCH  *)
(* and MERGE.                                                              *)
(***************************************************************************)
MaxCols == 2

ColNames == {"a", "b", "c"}

\* expandRTE: the columns of a range table entry, each a name and a Var
ColumnsOf(rte, names) ==
    [i \in 1..Len(names) |-> [name |-> names[i], var |-> [rte |-> rte, attno |-> i]]]

ColumnLists(rte) == {ColumnsOf(rte, names) : names \in SeqsOver(ColNames, MaxCols)}

\* variant: every column of the right side is passed on
get_res_cols_all_right(l_cols, r_cols) == l_cols \o r_cols

\* get_res_cols: res_colnames and res_colvars, column by column
get_res_cols(l_cols, r_cols) ==
    LET found(r) == \E i \in 1..Len(l_cols) : l_cols[i].name = r.name
    IN  l_cols \o SelectSeq(r_cols, LAMBDA r : ~found(r))

\* make_target_list_from_join over the join of the two sides
make_target_list_from_join(l_cols, r_cols) ==
    LET cols == get_res_cols(l_cols, r_cols)
    IN  [i \in 1..Len(cols) |-> [expr |-> cols[i].var, resno |-> i, resname |-> cols[i].name]]

RcInit ==
    /\ rc_left \in ColumnLists("l_rte")
    /\ rc_right \in ColumnLists("r_rte")
    /\ rc_targets = <<>>
    /\ rc_pc = "clause"

RcIdle ==
    /\ rc_left = <<>>
    /\ rc_right = <<>>
    /\ rc_targets = <<>>
    /\ rc_pc = "idle"

\* transform_cypher_match_pattern on an OPTIONAL MATCH with a previous clause
RcOptionalMatch ==
    /\ rc_pc = "clause"
    /\ rc_targets' = make_target_list_from_join(rc_left, rc_right)
    /\ rc_pc' = "optional match"
    /\ UNCHANGED <<rc_left, rc_right>>
    /\ UNCHANGED other_than_rc

\* transform_merge_make_lateral_join
RcMerge ==
    /\ rc_pc = "clause"
    /\ rc_targets' = make_target_list_from_join(rc_left, rc_right)
    /\ rc_pc' = "merge"
    /\ UNCHANGED <<rc_left, rc_right>>
    /\ UNCHANGED other_than_rc

RcNext ==
    \/ RcOptionalMatch
    \/ RcMerge

(***************************************************************************)
(* The scopes of a query: analyze_cypher_clause gives every clause that is *)
(* transformed as a subquery a parse state of its own and hands the        *)
(* entities of that state to the parent state.                             *)
(***************************************************************************)
MaxChain == 3
MaxBindings == 2

\* a clause: what transforms it, and the entities its pattern introduces
ClauseKinds ==
    {[kind |-> k, binds |-> MaxBindings] :
        k \in {"MATCH", "MATCH_WHERE", "OPTIONAL_MATCH", "CREATE"}}
    \cup {[kind |-> "WITH", binds |-> 0]}

ClauseChains == UNION {[1..n -> ClauseKinds] : n \in 1..MaxChain}

\* make_cypher_parsestate: the state of a clause given to transform;
\* has_prev tells whether clause->prev is set, peeled whether the clause
\* has passed transform_cypher_clause_with_where already
make_cypher_parsestate(clause, has_prev, peeled) ==
    [clause |-> clause, has_prev |-> has_prev, peeled |-> peeled,
     stage |-> "begin", entities |-> <<>>]

\* make_transform_entity, as to the clause and the parse state it is made in
make_scope_entity(clause, no, scope) ==
    [clause |-> clause, no |-> no, scope |-> scope,
     declared_in_current_clause |-> TRUE]

\* variant: the entities keep their flag
advance_transform_entities_to_next_clause_kept(entities) == entities

advance_transform_entities_to_next_clause(entities) ==
    [i \in 1..Len(entities) |->
        [entities[i] EXCEPT !.declared_in_current_clause = FALSE]]

ScTop == sc_stack[Len(sc_stack)]

ScKind(f) == sc_clauses[f.clause].kind

\* transform_cypher_clause_with_where takes the branch of a WHERE
IsWhereWrapper(f) == ScKind(f) = "MATCH_WHERE" /\ ~f.peeled

\* transform_cypher_match_pattern takes the branch of the lateral left join
IsOptionalJoin(f) ==
    ScKind(f) = "OPTIONAL_MATCH" /\ f.has_prev /\ f.clause > 1

HasPrevToTransform(f) ==
    ~IsWhereWrapper(f) /\ ~IsOptionalJoin(f) /\ f.has_prev /\ f.clause > 1

\* the entities the current state has made itself
OwnEntities(f, scope) ==
    {i \in 1..Len(f.entities) : f.entities[i].scope = scope}

\* the transform of the clause has come to its own pattern
AtOwnPattern(f) ==
    \/ f.stage = "own"
    \/ f.stage = "begin" /\ ~IsWhereWrapper(f) /\ ~IsOptionalJoin(f)
                         /\ ~HasPrevToTransform(f)

\* the transform function of the state has returned
Transformed(f, scope) ==
    \/ f.stage = "end"
    \/ AtOwnPattern(f) /\ Cardinality(OwnEntities(f, scope)) = sc_clauses[f.clause].binds

ScPush(stage, child) ==
    /\ sc_stack' = Append([sc_stack EXCEPT ![Len(sc_stack)].stage = stage], child)
    /\ UNCHANGED <<sc_clauses, sc_pc>>
    /\ UNCHANGED other_than_sc

ScInit ==
    /\ sc_clauses \in ClauseChains
    /\ sc_stack = <<make_cypher_parsestate(Len(sc_clauses), TRUE, FALSE)>>
    /\ sc_pc = "transform"

ScIdle ==
    /\ sc_clauses = <<>>
    /\ sc_stack = <<>>
    /\ sc_pc = "idle"

\* transform_prev_cypher_clause: analyze_cypher_clause on clause->prev
ScAnalyzePrev ==
    /\ sc_pc = "transform"
    /\ ScTop.stage = "begin"
    /\ HasPrevToTransform(ScTop)
    /\ ScPush("wait_prev", make_cypher_parsestate(ScTop.clause - 1, TRUE, FALSE))

\* transform_cypher_clause_with_where: analyze_cypher_clause on the clause itself
ScAnalyzeWithWhere ==
    /\ sc_pc = "transform"
    /\ ScTop.stage = "begin"
    /\ IsWhereWrapper(ScTop)
    /\ ScPush("wait_inner", make_cypher_parsestate(ScTop.clause, ScTop.has_prev, TRUE))

\* transform_cypher_optional_match_clause: j->larg, the previous clause
ScAnalyzeLeft ==
    /\ sc_pc = "transform"
    /\ ScTop.stage = "begin"
    /\ IsOptionalJoin(ScTop)
    /\ ScPush("wait_left", make_cypher_parsestate(ScTop.clause - 1, TRUE, FALSE))

\* transform_cypher_optional_match_clause: j->rarg, the clause without its prev
ScAnalyzeRight ==
    /\ sc_pc = "transform"
    /\ ScTop.stage = "left_done"
    /\ ScPush("wait_right", make_cypher_parsestate(ScTop.clause, FALSE, FALSE))

\* the pattern of the clause adds an entity to cpstate->entities
ScMakeTransformEntity ==
    /\ sc_pc = "transform"
    /\ AtOwnPattern(ScTop)
    /\ LET scope == Len(sc_stack)
           no == Cardinality(OwnEntities(ScTop, scope)) + 1
       IN  /\ no <= sc_clauses[ScTop.clause].binds
           /\ sc_stack' = [sc_stack EXCEPT
                  ![scope].stage = "own",
                  ![scope].entities =
                      Append(@, make_scope_entity(ScTop.clause, no, scope))]
    /\ UNCHANGED <<sc_clauses, sc_pc>>
    /\ UNCHANGED other_than_sc

\* analyze_cypher_clause, after transform has returned
ScAnalyzeReturn ==
    /\ sc_pc = "transform"
    /\ Len(sc_stack) > 1
    /\ Transformed(ScTop, Len(sc_stack))
    /\ LET parent == sc_stack[Len(sc_stack) - 1]
           entities == advance_transform_entities_to_next_clause(ScTop.entities)
           stage == CASE parent.stage = "wait_prev" -> "own"
                      [] parent.stage = "wait_left" -> "left_done"
                      [] OTHER -> "end"
       IN  sc_stack' = [Pop(sc_stack, 1) EXCEPT
               ![Len(sc_stack) - 1].stage = stage,
               ![Len(sc_stack) - 1].entities = parent.entities \o entities]
    /\ UNCHANGED <<sc_clauses, sc_pc>>
    /\ UNCHANGED other_than_sc

\* the transform of the last clause returns to the caller of the parser
ScFinish ==
    /\ sc_pc = "transform"
    /\ Len(sc_stack) = 1
    /\ Transformed(ScTop, 1)
    /\ sc_pc' = "done"
    /\ UNCHANGED <<sc_clauses, sc_stack>>
    /\ UNCHANGED other_than_sc

ScNext ==
    \/ ScAnalyzePrev
    \/ ScAnalyzeWithWhere
    \/ ScAnalyzeLeft
    \/ ScAnalyzeRight
    \/ ScMakeTransformEntity
    \/ ScAnalyzeReturn
    \/ ScFinish

(***************************************************************************)
(* The predicates of variable_edge.c that compare an end of the first or   *)
(* of the last edge of a VariableEdge with a graphid or with a vertex.     *)
(***************************************************************************)
MaxVeEdges == 2

\* a graphid, a 64 bit integer, as its two 32 bit words
GraphIds == [hi : {0, 1}, lo : {1, 2}]

\* (int64) children[n] on an array of 32 bit entries: the low word alone
FirstWord(id) == [hi |-> 0, lo |-> id.lo]

\* the entries of a VariableEdge of k edges: its edges with the vertices
\* between them, as create_variable_edge and build_variable_edge lay them out
VariableEdgesOf(k) ==
    {[i \in 1..(2 * k - 1) |->
         IF i % 2 = 1
         THEN [kind |-> "edge", start_id |-> ends[(i + 1) \div 2][1],
               end_id |-> ends[(i + 1) \div 2][2]]
         ELSE [kind |-> "vertex", id |-> ends[i \div 2][2]]] :
        ends \in [1..k -> GraphIds \X GraphIds]}

VariableEdges(max_edges) == UNION {VariableEdgesOf(k) : k \in 1..max_edges}

\* &ve->children[1]
first_entry(ve) == ve[1]

\* ptr after the loop for (i = 0; i < ve->children[0] - 1; i++, ptr += VARSIZE(ptr))
last_entry(ve) == ve[Len(ve)]

\* (int64) e->children[n], where the 64 bit field starts at children[n]
edge_word(bits, field) == IF bits = 32 THEN FirstWord(field) ELSE field

gid_is_first_startid(bits, id, ve) ==
    edge_word(bits, first_entry(ve).start_id) = id

\* the three predicates below return before they compare
vertex_is_first_start_vertex(bits, id, ve) == TRUE

gid_is_first_endid(bits, id, ve) == TRUE

vertex_is_first_end_vertex(bits, id, ve) == TRUE

gid_is_last_startid(bits, id, ve) ==
    edge_word(bits, last_entry(ve).start_id) = id

\* (int64) v->children[0] reads one ventry of the id of the vertex
vertex_is_last_start_vertex(bits, id, ve) ==
    edge_word(bits, last_entry(ve).start_id) = FirstWord(id)

gid_is_last_endid(bits, id, ve) ==
    edge_word(bits, last_entry(ve).end_id) = id

vertex_is_last_end_vertex(bits, id, ve) ==
    edge_word(bits, last_entry(ve).end_id) = FirstWord(id)

NoCall == [fn |-> "", result |-> FALSE]

PdInit ==
    /\ pd_eentry_bits \in {32, 64}
    /\ pd_id \in GraphIds
    /\ pd_ve \in VariableEdges(MaxVeEdges)
    /\ pd_call = NoCall

PdIdle ==
    /\ pd_eentry_bits = 32
    /\ pd_id = [hi |-> 0, lo |-> 1]
    /\ pd_ve = <<>>
    /\ pd_call = NoCall

PdReturn(fn, result) ==
    /\ pd_call' = [fn |-> fn, result |-> result]
    /\ UNCHANGED <<pd_eentry_bits, pd_id, pd_ve>>
    /\ UNCHANGED other_than_pd

PdGidIsFirstStartid ==
    /\ pd_call = NoCall
    /\ pd_ve # <<>>
    /\ PdReturn("gid_is_first_startid", gid_is_first_startid(pd_eentry_bits, pd_id, pd_ve))

PdVertexIsFirstStartVertex ==
    /\ pd_call = NoCall
    /\ pd_ve # <<>>
    /\ PdReturn("vertex_is_first_start_vertex",
                vertex_is_first_start_vertex(pd_eentry_bits, pd_id, pd_ve))

PdGidIsFirstEndid ==
    /\ pd_call = NoCall
    /\ pd_ve # <<>>
    /\ PdReturn("gid_is_first_endid", gid_is_first_endid(pd_eentry_bits, pd_id, pd_ve))

PdVertexIsFirstEndVertex ==
    /\ pd_call = NoCall
    /\ pd_ve # <<>>
    /\ PdReturn("vertex_is_first_end_vertex",
                vertex_is_first_end_vertex(pd_eentry_bits, pd_id, pd_ve))

PdGidIsLastStartid ==
    /\ pd_call = NoCall
    /\ pd_ve # <<>>
    /\ PdReturn("gid_is_last_startid", gid_is_last_startid(pd_eentry_bits, pd_id, pd_ve))

PdVertexIsLastStartVertex ==
    /\ pd_call = NoCall
    /\ pd_ve # <<>>
    /\ PdReturn("vertex_is_last_start_vertex",
                vertex_is_last_start_vertex(pd_eentry_bits, pd_id, pd_ve))

PdGidIsLastEndid ==
    /\ pd_call = NoCall
    /\ pd_ve # <<>>
    /\ PdReturn("gid_is_last_endid", gid_is_last_endid(pd_eentry_bits, pd_id, pd_ve))

PdVertexIsLastEndVertex ==
    /\ pd_call = NoCall
    /\ pd_ve # <<>>
    /\ PdReturn("vertex_is_last_end_vertex",
                vertex_is_last_end_vertex(pd_eentry_bits, pd_id, pd_ve))

PdNext ==
    \/ PdGidIsFirstStartid
    \/ PdVertexIsFirstStartVertex
    \/ PdGidIsFirstEndid
    \/ PdVertexIsFirstEndVertex
    \/ PdGidIsLastStartid
    \/ PdVertexIsLastStartVertex
    \/ PdGidIsLastEndid
    \/ PdVertexIsLastEndVertex

(***************************************************************************)
(* Transform of the pattern of a CREATE or of a MERGE clause: each element *)
(* of the path becomes a target node of the directive, and the label of a  *)
(* new element is created in the catalog when the element is transformed.  *)
(* A name or a label that is NULL is the empty string.  The properties of  *)
(* an element are a map or absent, never a parameter, and the clause is    *)
(* the last of the query.                                                  *)
(***************************************************************************)
MaxPathEdges == 1

AG_DEFAULT_LABEL_EDGE == "_ag_label_edge"

\* the labels of the graph before the query is transformed
CatalogBefore ==
    {[name |-> AG_DEFAULT_LABEL_VERTEX, kind |-> "v"],
     [name |-> AG_DEFAULT_LABEL_EDGE, kind |-> "e"],
     [name |-> "Person", kind |-> "v"],
     [name |-> "KNOWS", kind |-> "e"]}

CypherNode(name, label, props) ==
    [type |-> "node", name |-> name, label |-> label, props |-> props, dir |-> "none"]

\* nodes without a name, naming a variable of the clause itself (a) or of
\* the clause before (p); without a label (the default label, which
\* exists), with a label that is new (City) or that is the label of an
\* edge (KNOWS); with properties where they are refused
CypherNodes ==
    {CypherNode("", "", FALSE), CypherNode("", "City", FALSE),
     CypherNode("", "KNOWS", FALSE), CypherNode("a", "", FALSE),
     CypherNode("p", "", FALSE), CypherNode("p", "", TRUE)}

\* relationships with a label that exists (KNOWS), that is new (City), that
\* is the label of a vertex (Person) or without one, in every direction
CypherRelationships ==
    [type : {"edge"}, name : {""}, label : {"", "KNOWS", "City"},
     props : {FALSE}, dir : {"none", "right"}]
    \cup [type : {"edge"}, name : {"", "p"}, label : {"KNOWS", "Person"},
          props : {FALSE}, dir : {"left"}]

\* a path of k relationships: node, relationship, node, ...
RECURSIVE CypherPathsOf(_)
CypherPathsOf(k) ==
    IF k = 0 THEN {<<n>> : n \in CypherNodes}
    ELSE {p \o <<e, n>> : p \in CypherPathsOf(k - 1),
                          e \in CypherRelationships, n \in CypherNodes}

CypherPaths(max_edges) == UNION {CypherPathsOf(k) : k \in 0..max_edges}

\* the clause before, if any, and the variables it declares
PrevClauses ==
    {[exists |-> FALSE, declares |-> {}],
     [exists |-> TRUE, declares |-> {[name |-> "p", type |-> "ENT_VERTEX"]}],
     [exists |-> TRUE, declares |-> {[name |-> "p", type |-> "ENT_EDGE"]}]}

\* the catalog of labels
label_exists(labels, name) == \E l \in labels : l.name = name

search_label_name_graph_cache(labels, name) ==
    IF label_exists(labels, name)
    THEN {l \in labels : l.name = name}
    ELSE {}

create_label(labels, name, kind) ==
    labels \cup {[name |-> name, kind |-> kind]}

\* the entities of the clause before, as handle_prev_clause leaves them in
\* the parse state
PrevEntities(prev) ==
    {[name |-> v.name, type |-> v.type, declared_in_current_clause |-> FALSE] :
        v \in prev.declares}

find_variable(entities, name) == {e \in entities : name # "" /\ e.name = name}

\* the name is read through the union whatever the type asked for
find_transform_entity(entities, name, type) ==
    {e \in entities : e.name # "" /\ e.name = name}

\* a column of the subquery of the clause before
variable_exists(prev, name) ==
    /\ name # ""
    /\ prev.exists
    /\ \E v \in prev.declares : v.name = name

CrMakeEntity(type, name) ==
    [name |-> name, type |-> type, declared_in_current_clause |-> TRUE]

NoTargetNode == [type |-> "", label_name |-> "", variable_name |-> "", flags |-> {}, dir |-> "none"]

\* what the transform of one element leaves: the error raised if any, the
\* catalog, the target node, and the name the element has afterwards
CrRaise(msg, labels) ==
    [error |-> msg, labels |-> labels, rel |-> NoTargetNode, name |-> ""]

CrReturn(labels, rel, name) ==
    [error |-> "", labels |-> labels, rel |-> rel, name |-> name]

transform_create_cypher_existing_node(labels, declared_in_current_clause, node) ==
    IF node.props
    THEN CrRaise("previously declared nodes in a create clause cannot have properties", labels)
    ELSE IF node.label # ""
    THEN CrRaise("previously declared variables cannot have a label", labels)
    ELSE CrReturn(labels,
                  [type |-> "LABEL_KIND_VERTEX", label_name |-> "",
                   variable_name |-> node.name,
                   flags |-> IF declared_in_current_clause
                             THEN {"EXISTING_VARAIBLE_DECLARED_SAME_CLAUSE"}
                             ELSE {},
                   dir |-> "none"],
                  node.name)

transform_create_cypher_new_node_label_assumed(labels, node) ==
    CrReturn(labels,
             [type |-> "LABEL_KIND_VERTEX", label_name |-> node.label,
              variable_name |-> node.name,
              flags |-> {"CYPHER_TARGET_NODE_FLAG_INSERT"}
                        \cup (IF node.name # "" THEN {"CYPHER_TARGET_NODE_IS_VAR"} ELSE {}),
              dir |-> "none"],
             IF node.name # "" THEN node.name ELSE DefaultAlias)

transform_create_cypher_new_node(labels, node) ==
    LET label == IF node.label = "" THEN AG_DEFAULT_LABEL_VERTEX ELSE node.label
        created == IF ~label_exists(labels, label)
                   THEN create_label(labels, label, "v")
                   ELSE labels
    IN  CrReturn(created,
                 [type |-> "LABEL_KIND_VERTEX", label_name |-> node.label,
                  variable_name |-> node.name,
                  flags |-> {"CYPHER_TARGET_NODE_FLAG_INSERT"}
                            \cup (IF node.name # "" THEN {"CYPHER_TARGET_NODE_IS_VAR"} ELSE {}),
                  dir |-> "none"],
                 IF node.name # "" THEN node.name ELSE DefaultAlias)

transform_create_cypher_node(labels, entities, node) ==
    IF /\ node.label # ""
       /\ \E lcd \in search_label_name_graph_cache(labels, node.label) : lcd.kind # "v"
    THEN CrRaise("label is for edges, not vertices", labels)
    ELSE IF find_variable(entities, node.name) # {}
    THEN LET entity == CHOOSE e \in find_variable(entities, node.name) : TRUE
         IN  IF entity.type # "ENT_VERTEX"
             THEN CrRaise("variable already exists", labels)
             ELSE transform_create_cypher_existing_node(
                      labels, entity.declared_in_current_clause, node)
    ELSE transform_create_cypher_new_node(labels, node)

transform_create_cypher_edge_any_dir(labels, prev, edge) ==
    IF /\ edge.label # ""
       /\ \E lcd \in search_label_name_graph_cache(labels, edge.label) : lcd.kind # "e"
    THEN CrRaise("label is for vertices, not edges", labels)
    ELSE IF variable_exists(prev, edge.name)
    THEN CrRaise("variable already exists", labels)
    ELSE IF edge.label = ""
    THEN CrRaise("relationships must be specify a label in CREATE.", labels)
    ELSE CrReturn(IF ~label_exists(labels, edge.label)
                  THEN create_label(labels, edge.label, "e")
                  ELSE labels,
                  [type |-> "LABEL_KIND_EDGE", label_name |-> edge.label,
                   variable_name |-> edge.name,
                   flags |-> {"CYPHER_TARGET_NODE_FLAG_INSERT"}
                             \cup (IF edge.name # "" THEN {"CYPHER_TARGET_NODE_IS_VAR"} ELSE {}),
                   dir |-> edge.dir],
                  edge.name)

transform_create_cypher_edge(labels, prev, edge) ==
    IF /\ edge.label # ""
       /\ \E lcd \in search_label_name_graph_cache(labels, edge.label) : lcd.kind # "e"
    THEN CrRaise("label is for vertices, not edges", labels)
    ELSE IF variable_exists(prev, edge.name)
    THEN CrRaise("variable already exists", labels)
    ELSE IF edge.dir = "none"
    THEN CrRaise("only directed relationships are allowed in CREATE", labels)
    ELSE IF edge.label = ""
    THEN CrRaise("relationships must be specify a label in CREATE.", labels)
    ELSE CrReturn(IF ~label_exists(labels, edge.label)
                  THEN create_label(labels, edge.label, "e")
                  ELSE labels,
                  [type |-> "LABEL_KIND_EDGE", label_name |-> edge.label,
                   variable_name |-> edge.name,
                   flags |-> {"CYPHER_TARGET_NODE_FLAG_INSERT"}
                             \cup (IF edge.name # "" THEN {"CYPHER_TARGET_NODE_IS_VAR"} ELSE {}),
                   dir |-> edge.dir],
                  edge.name)

transform_merge_cypher_edge(labels, entities, edge) ==
    IF edge.name # "" /\ find_transform_entity(entities, edge.name, "ENT_EDGE") # {}
    THEN CrRaise("variable already exists", labels)
    ELSE IF edge.label = ""
    THEN CrRaise("edges declared in a MERGE clause must have a label", labels)
    ELSE CrReturn(IF ~label_exists(labels, edge.label)
                  THEN create_label(labels, edge.label, "e")
                  ELSE labels,
                  [type |-> "LABEL_KIND_EDGE", label_name |-> edge.label,
                   variable_name |-> IF edge.name # "" THEN edge.name ELSE DefaultAlias,
                   flags |-> {"CYPHER_TARGET_NODE_FLAG_INSERT"}
                             \cup (IF edge.name # "" THEN {"CYPHER_TARGET_NODE_IS_VAR"} ELSE {}),
                   dir |-> edge.dir],
                  IF edge.name # "" THEN edge.name ELSE DefaultAlias)

transform_merge_cypher_node(labels, entities, node) ==
    IF node.name # "" /\ find_transform_entity(entities, node.name, "ENT_VERTEX") # {}
    THEN CrReturn(labels,
                  [type |-> "LABEL_KIND_VERTEX", label_name |-> "",
                   variable_name |-> node.name,
                   flags |-> {"CYPHER_TARGET_NODE_MERGE_EXISTS"}, dir |-> "none"],
                  node.name)
    ELSE LET label == IF node.label = "" THEN AG_DEFAULT_LABEL_VERTEX ELSE node.label
         IN  CrReturn(IF ~label_exists(labels, label)
                      THEN create_label(labels, label, "v")
                      ELSE labels,
                      [type |-> "LABEL_KIND_VERTEX", label_name |-> node.label,
                       variable_name |-> IF node.name # "" THEN node.name ELSE DefaultAlias,
                       flags |-> {"CYPHER_TARGET_NODE_FLAG_INSERT"}
                                 \cup (IF node.name # "" THEN {"CYPHER_TARGET_NODE_IS_VAR"} ELSE {}),
                       dir |-> "none"],
                      IF node.name # "" THEN node.name ELSE DefaultAlias)

NoQuery == [clause |-> "", flags |-> {}, paths |-> <<>>]

CrInit ==
    /\ cr_clause \in {"create", "merge"}
    /\ cr_prev \in PrevClauses
    /\ cr_path \in CypherPaths(MaxPathEdges)
    /\ cr_pos = 1
    /\ cr_labels = CatalogBefore
    /\ cr_entities = PrevEntities(cr_prev)
    /\ cr_target_nodes = <<>>
    /\ cr_query = NoQuery
    /\ cr_error = ""

CrIdle ==
    /\ cr_clause = ""
    /\ cr_prev = [exists |-> FALSE, declares |-> {}]
    /\ cr_path = <<>>
    /\ cr_pos = 1
    /\ cr_labels = {}
    /\ cr_entities = {}
    /\ cr_target_nodes = <<>>
    /\ cr_query = NoQuery
    /\ cr_error = ""

\* one turn of the foreach over the path: the element is transformed and,
\* unless it raised, appended to the transformed path
CrElementDone(out, entities) ==
    /\ cr_labels' = out.labels
    /\ cr_error' = out.error
    /\ IF out.error = ""
       THEN /\ cr_target_nodes' = Append(cr_target_nodes, out.rel)
            /\ cr_entities' = entities
            /\ cr_pos' = cr_pos + 1
       ELSE UNCHANGED <<cr_target_nodes, cr_entities, cr_pos>>
    /\ UNCHANGED <<cr_clause, cr_prev, cr_path, cr_query>>
    /\ UNCHANGED other_than_cr

CrAtElement(clause, type) ==
    /\ cr_clause = clause
    /\ cr_error = ""
    /\ cr_pos <= Len(cr_path)
    /\ cr_path[cr_pos].type = type

CrCreateNode ==
    /\ CrAtElement("create", "node")
    /\ cr_query = NoQuery
    /\ LET out == transform_create_cypher_node(cr_labels, cr_entities, cr_path[cr_pos])
       IN  CrElementDone(out, cr_entities \cup {CrMakeEntity("ENT_VERTEX", out.name)})

CrCreateEdge ==
    /\ CrAtElement("create", "edge")
    /\ cr_query = NoQuery
    /\ LET out == transform_create_cypher_edge(cr_labels, cr_prev, cr_path[cr_pos])
       IN  CrElementDone(out, cr_entities \cup {CrMakeEntity("ENT_EDGE", out.name)})

CrMergeNode ==
    /\ CrAtElement("merge", "node")
    /\ cr_query = NoQuery
    /\ CrElementDone(transform_merge_cypher_node(cr_labels, cr_entities, cr_path[cr_pos]),
                     cr_entities)

CrMergeEdge ==
    /\ CrAtElement("merge", "edge")
    /\ cr_query = NoQuery
    /\ CrElementDone(transform_merge_cypher_edge(cr_labels, cr_entities, cr_path[cr_pos]),
                     cr_entities)

\* the directive is made once the whole pattern is transformed
CrDirective(clause) ==
    [clause |-> clause,
     flags |-> {"CYPHER_CLAUSE_FLAG_TERMINAL"}
               \cup (IF cr_prev.exists THEN {"CYPHER_CLAUSE_FLAG_PREVIOUS_CLAUSE"} ELSE {}),
     paths |-> <<cr_target_nodes>>]

CrCypherCreate ==
    /\ cr_clause = "create"
    /\ cr_error = ""
    /\ cr_pos > Len(cr_path)
    /\ cr_query = NoQuery
    /\ cr_query' = CrDirective("create")
    /\ UNCHANGED <<cr_clause, cr_prev, cr_path, cr_pos, cr_labels, cr_entities, cr_target_nodes, cr_error>>
    /\ UNCHANGED other_than_cr

CrCypherMerge ==
    /\ cr_clause = "merge"
    /\ cr_error = ""
    /\ cr_pos > Len(cr_path)
    /\ cr_query = NoQuery
    /\ cr_query' = CrDirective("merge")
    /\ UNCHANGED <<cr_clause, cr_prev, cr_path, cr_pos, cr_labels, cr_entities, cr_target_nodes, cr_error>>
    /\ UNCHANGED other_than_cr

CrNext ==
    \/ CrCreateNode
    \/ CrCreateEdge
    \/ CrMergeNode
    \/ CrMergeEdge
    \/ CrCypherCreate
    \/ CrCypherMerge

(***************************************************************************)
(* Transform of the updating clauses DELETE, SET and REMOVE.  An item is   *)
(* written as a variable (a ColumnRef of one field) or as a property of a  *)
(* variable (an A_Indirection of one step over a ColumnRef), with = or     *)
(* with += in SET.  The names written are those of user variables.         *)
(***************************************************************************)
MaxItems == 2

UserVariables == {"a", "b", "c"}

AGE_VARNAME_CREATE_NULL_VALUE == "_age_default_varname_create_null_value"

UpdateItems(clause) ==
    [form : IF clause = "set" THEN {"variable", "property", "property_add"}
            ELSE {"variable", "property"},
     var : UserVariables]

UpdateItemLists(clause, max_items) ==
    UNION {[1..n -> UpdateItems(clause)] : n \in 1..max_items}

\* the clause before, if any, and the columns of its result
UpdatePrevClauses ==
    {[exists |-> FALSE, columns |-> <<>>]}
    \cup {[exists |-> TRUE, columns |-> cols] : cols \in {<<>>, <<"a">>, <<"b">>, <<"a", "b">>}}

makeTargetEntry(resname) == [resname |-> resname, wrapped |-> FALSE]

\* add all the attributes of the subquery of the clause before
handle_prev_clause(targetList, prev) ==
    targetList \o [i \in 1..Len(prev.columns) |-> makeTargetEntry(prev.columns[i])]

get_target_entry_resno_of_first(target_list, name) ==
    IF \E i \in 1..Len(target_list) : target_list[i].resname = name
    THEN CHOOSE i \in 1..Len(target_list) :
             /\ target_list[i].resname = name
             /\ \A j \in 1..(i - 1) : target_list[j].resname # name
    ELSE 1

\* the resno of the first entry of that name, -1 if there is none
get_target_entry_resno(target_list, name) ==
    IF \E i \in 1..Len(target_list) : target_list[i].resname = name
    THEN CHOOSE i \in 1..Len(target_list) :
             /\ target_list[i].resname = name
             /\ \A j \in 1..(i - 1) : target_list[j].resname # name
    ELSE -1

\* the entry found is given a volatile wrapper
WrapTarget(target_list, resno) ==
    IF resno = -1 THEN target_list
    ELSE [target_list EXCEPT ![resno].wrapped = TRUE]

\* what the transform of one item leaves: the error raised if any, the
\* target list, and the item made
UpRaise(msg, target_list) ==
    [error |-> msg, targetList |-> target_list,
     item |-> [var_name |-> "", entity_position |-> -1, remove_item |-> FALSE]]

UpMade(target_list, var_name, resno, remove_item) ==
    [error |-> "", targetList |-> target_list,
     item |-> [var_name |-> var_name, entity_position |-> resno,
               remove_item |-> remove_item]]

transform_cypher_delete_item(target_list, expr) ==
    LET resno == get_target_entry_resno(target_list, expr.var)
    IN  IF expr.form # "variable"
        THEN UpRaise("unexpected Node for cypher_clause", target_list)
        ELSE IF resno = -1
        THEN UpRaise("undefined reference to variable in DELETE clause", target_list)
        ELSE UpMade(WrapTarget(target_list, resno), expr.var, resno, FALSE)

transform_cypher_remove_item(target_list, set_item) ==
    LET resno == get_target_entry_resno(target_list, set_item.var)
    IN  IF set_item.form = "property_add"
        THEN UpRaise("REMOVE clause does not support adding propereties from maps", target_list)
        ELSE IF set_item.form # "property"
        THEN UpRaise("REMOVE clause must be in the format: REMOVE variable.property_name", target_list)
        ELSE IF resno = -1
        THEN UpRaise("undefined reference to variable in REMOVE clause", target_list)
        ELSE UpMade(WrapTarget(target_list, resno), set_item.var, resno, TRUE)

\* the new value of the property is appended under a default alias
transform_cypher_set_item(target_list, set_item) ==
    LET resno == get_target_entry_resno(target_list, set_item.var)
    IN  IF set_item.form = "variable"
        THEN UpRaise("SET clause expects a variable name", target_list)
        ELSE IF set_item.form = "property_add"
        THEN UpRaise("SET clause does not yet support adding propereties from maps", target_list)
        ELSE IF resno = -1
        THEN UpRaise("undefined reference to variable in SET clause", target_list)
        ELSE UpMade(Append(WrapTarget(target_list, resno),
                           [resname |-> DefaultAlias, wrapped |-> TRUE]),
                    set_item.var, resno, FALSE)

UpInit ==
    /\ up_clause \in {"delete", "set", "remove"}
    /\ up_prev \in UpdatePrevClauses
    /\ up_items \in UpdateItemLists(up_clause, MaxItems)
    /\ up_pos = 0
    /\ up_targetList = <<>>
    /\ up_info = <<>>
    /\ up_query = NoQuery
    /\ up_error = ""

UpIdle ==
    /\ up_clause = ""
    /\ up_prev = [exists |-> FALSE, columns |-> <<>>]
    /\ up_items = <<>>
    /\ up_pos = 0
    /\ up_targetList = <<>>
    /\ up_info = <<>>
    /\ up_query = NoQuery
    /\ up_error = ""

\* the clause is entered: the null value entry is made, then the clause
\* before is transformed, or the clause is refused if there is none
UpEnter(clause_name) ==
    /\ up_pos = 0
    /\ up_error = ""
    /\ IF ~up_prev.exists
       THEN /\ up_error' = clause_name \o " cannot be the first clause in a Cypher query"
            /\ up_targetList' = <<makeTargetEntry(AGE_VARNAME_CREATE_NULL_VALUE)>>
            /\ UNCHANGED up_pos
       ELSE /\ up_targetList' = handle_prev_clause(
                                    <<makeTargetEntry(AGE_VARNAME_CREATE_NULL_VALUE)>>, up_prev)
            /\ up_pos' = 1
            /\ UNCHANGED up_error
    /\ UNCHANGED <<up_clause, up_prev, up_items, up_info, up_query>>
    /\ UNCHANGED other_than_up

UpCypherDelete ==
    /\ up_clause = "delete"
    /\ UpEnter("DELETE")

UpCypherSet ==
    /\ up_clause \in {"set", "remove"}
    /\ UpEnter(IF up_clause = "remove" THEN "REMOVE" ELSE "SET")

\* one turn of the foreach over the items
UpItemDone(out) ==
    /\ up_targetList' = out.targetList
    /\ up_error' = out.error
    /\ IF out.error = ""
       THEN /\ up_info' = Append(up_info, out.item)
            /\ up_pos' = up_pos + 1
       ELSE UNCHANGED <<up_info, up_pos>>
    /\ UNCHANGED <<up_clause, up_prev, up_items, up_query>>
    /\ UNCHANGED other_than_up

UpAtItem(clause) ==
    /\ up_clause = clause
    /\ up_error = ""
    /\ up_pos >= 1
    /\ up_pos <= Len(up_items)

UpDeleteItem ==
    /\ UpAtItem("delete")
    /\ UpItemDone(transform_cypher_delete_item(up_targetList, up_items[up_pos]))

UpSetItem ==
    /\ UpAtItem("set")
    /\ UpItemDone(transform_cypher_set_item(up_targetList, up_items[up_pos]))

UpRemoveItem ==
    /\ UpAtItem("remove")
    /\ UpItemDone(transform_cypher_remove_item(up_targetList, up_items[up_pos]))

\* the directive is made once all the items are transformed
UpReturn(clause_var_name) ==
    /\ up_error = ""
    /\ up_pos > Len(up_items)
    /\ up_query = NoQuery
    /\ up_query' = [clause |-> up_clause, flags |-> {"CYPHER_CLAUSE_FLAG_TERMINAL"},
                    paths |-> up_info]
    /\ up_targetList' = Append(up_targetList, makeTargetEntry(clause_var_name))
    /\ UNCHANGED <<up_clause, up_prev, up_items, up_pos, up_info, up_error>>
    /\ UNCHANGED other_than_up

UpDeleteReturn ==
    /\ up_clause = "delete"
    /\ UpReturn("_age_default_varname_delete_clause")

UpSetReturn ==
    /\ up_clause \in {"set", "remove"}
    /\ UpReturn("_age_default_varname_set_clause")

UpNext ==
    \/ UpCypherDelete
    \/ UpCypherSet
    \/ UpDeleteItem
    \/ UpSetItem
    \/ UpRemoveItem
    \/ UpDeleteReturn
    \/ UpSetReturn

(***************************************************************************)
(* Specifications.                                                         *)
(***************************************************************************)
InitVle == VleInit /\ UqIdle /\ MtIdle /\ ExIdle /\ RgIdle /\ SqIdle /\ JnIdle /\ WtIdle /\ RcIdle /\ ScIdle /\ PdIdle /\ CrIdle /\ UpIdle

SpecVle == InitVle /\ [][VleNext]_vars

\* the executor keeps calling the set-returning function until it reports done,
\* and a call runs its loop until it returns
SpecVleLive == InitVle /\ [][VleNext]_vars /\ WF_vars(VleNext)

InitVleProps == VlePropsInit /\ UqIdle /\ MtIdle /\ ExIdle /\ RgIdle /\ SqIdle /\ JnIdle /\ WtIdle /\ RcIdle /\ ScIdle /\ PdIdle /\ CrIdle /\ UpIdle

SpecVleProps == InitVleProps /\ [][VleNext]_vars

InitUniq == UqInit /\ VleIdle /\ MtIdle /\ ExIdle /\ RgIdle /\ SqIdle /\ JnIdle /\ WtIdle /\ RcIdle /\ ScIdle /\ PdIdle /\ CrIdle /\ UpIdle

SpecUniq == InitUniq /\ [][UqNext]_vars

InitMatch == MtInit /\ VleIdle /\ UqIdle /\ ExIdle /\ RgIdle /\ SqIdle /\ JnIdle /\ WtIdle /\ RcIdle /\ ScIdle /\ PdIdle /\ CrIdle /\ UpIdle

SpecMatch == InitMatch /\ [][MtNext]_vars

InitExpr == ExInit /\ VleIdle /\ UqIdle /\ MtIdle /\ RgIdle /\ SqIdle /\ JnIdle /\ WtIdle /\ RcIdle /\ ScIdle /\ PdIdle /\ CrIdle /\ UpIdle

SpecExpr == InitExpr /\ [][ExNext]_vars

InitRange == RgInit /\ VleIdle /\ UqIdle /\ MtIdle /\ ExIdle /\ SqIdle /\ JnIdle /\ WtIdle /\ RcIdle /\ ScIdle /\ PdIdle /\ CrIdle /\ UpIdle

SpecRange == InitRange /\ [][RgNext]_vars

InitQuery == SqInit /\ VleIdle /\ UqIdle /\ MtIdle /\ ExIdle /\ RgIdle /\ JnIdle /\ WtIdle /\ RcIdle /\ ScIdle /\ PdIdle /\ CrIdle /\ UpIdle

SpecQuery == InitQuery /\ [][SqNext]_vars

InitJoin == JnInit /\ VleIdle /\ UqIdle /\ MtIdle /\ ExIdle /\ RgIdle /\ SqIdle /\ WtIdle /\ RcIdle /\ ScIdle /\ PdIdle /\ CrIdle /\ UpIdle

SpecJoin == InitJoin /\ [][JnNext]_vars

InitWith == WtInit /\ VleIdle /\ UqIdle /\ MtIdle /\ ExIdle /\ RgIdle /\ SqIdle /\ JnIdle /\ RcIdle /\ ScIdle /\ PdIdle /\ CrIdle /\ UpIdle

SpecWith == InitWith /\ [][WtNext]_vars

InitCols == RcInit /\ VleIdle /\ UqIdle /\ MtIdle /\ ExIdle /\ RgIdle /\ SqIdle /\ JnIdle /\ WtIdle /\ ScIdle /\ PdIdle /\ CrIdle /\ UpIdle

SpecCols == InitCols /\ [][RcNext]_vars

InitScopes == ScInit /\ VleIdle /\ UqIdle /\ MtIdle /\ ExIdle /\ RgIdle /\ SqIdle /\ JnIdle /\ WtIdle /\ RcIdle /\ PdIdle /\ CrIdle /\ UpIdle

SpecScopes == InitScopes /\ [][ScNext]_vars

InitPreds == PdInit /\ ExIdle /\ JnIdle /\ MtIdle /\ RcIdle /\ RgIdle /\ ScIdle /\ SqIdle /\ UqIdle /\ VleIdle /\ WtIdle /\ CrIdle /\ UpIdle

SpecPreds == InitPreds /\ [][PdNext]_vars

InitCreate == CrInit /\ ExIdle /\ JnIdle /\ MtIdle /\ PdIdle /\ RcIdle /\ RgIdle /\ ScIdle /\ SqIdle /\ UqIdle /\ VleIdle /\ WtIdle /\ UpIdle

SpecCreate == InitCreate /\ [][CrNext]_vars

InitUpdate == UpInit /\ CrIdle /\ ExIdle /\ JnIdle /\ MtIdle /\ PdIdle /\ RcIdle /\ RgIdle /\ ScIdle /\ SqIdle /\ UqIdle /\ VleIdle /\ WtIdle

SpecUpdate == InitUpdate /\ [][UpNext]_vars

\* the behaviours of SpecVle, for the claims on the order of the search and
\* on its stacks
InitVleOrder == VleInit /\ CrIdle /\ ExIdle /\ JnIdle /\ MtIdle /\ PdIdle /\ RcIdle /\ RgIdle /\ ScIdle /\ SqIdle /\ UpIdle /\ UqIdle /\ WtIdle

SpecVleOrder == InitVleOrder /\ [][VleNext]_vars

(***************************************************************************)
(* Reference notions for the VLE claims, stated on the call arguments.     *)
(***************************************************************************)
\* the edge ids of a yielded graphid array <<v0, e1, v1, ..., ek, vk>>
EdgesOf(arr) == [i \in 1..((Len(arr) - 1) \div 2) |-> arr[2 * i]]

YieldedEdgeSeqs == {EdgesOf(yielded[i]) : i \in DOMAIN yielded}

\* lower and upper bound as the caller passed them (lo defaults to 1)
ArgLo == IF fcinfo.lo.isnull THEN 1 ELSE fcinfo.lo.val
ArgHiInfinite == fcinfo.hi.isnull
ArgHi == fcinfo.hi.val

\* an edge may be traversed from vertex a to vertex b in direction dir
Joins(ee, a, b, dir) ==
    CASE dir = "RIGHT" -> ee.start_id = a /\ ee.end_id = b
      [] dir = "LEFT"  -> ee.end_id = a /\ ee.start_id = b
      [] OTHER         -> \/ ee.start_id = a /\ ee.end_id = b
                          \/ ee.end_id = a /\ ee.start_id = b

\* the vertex reached from v along the edge sequence p, NoVertex if p is no walk
RECURSIVE WalkEnd(_, _, _, _)
WalkEnd(g, dir, p, v) ==
    IF p = <<>> THEN v
    ELSE LET ee == g[Head(p)]
             nv == CASE dir = "RIGHT" -> IF ee.start_id = v THEN ee.end_id ELSE NoVertex
                     [] dir = "LEFT"  -> IF ee.end_id = v THEN ee.start_id ELSE NoVertex
                     [] OTHER -> IF ee.start_id = v THEN ee.end_id
                                 ELSE IF ee.end_id = v THEN ee.start_id
                                 ELSE NoVertex
         IN  IF nv = NoVertex THEN NoVertex ELSE WalkEnd(g, dir, Tail(p), nv)

SatisfiesConstraints(ee) ==
    /\ fcinfo.label.isnull \/ ee.label = fcinfo.label.val
    /\ fcinfo.props.isnull \/ fcinfo.props.val \subseteq ee.properties

\* every edge-unique path from vsid to veid with a length in [lo, hi] whose
\* edges satisfy the constraints, as a set of edge id sequences
AllPaths ==
    LET m   == Len(ggctx)
        top == IF ArgHiInfinite THEN m ELSE Min(ArgHi, m)
    IN  {p \in UNION {[1..k -> 1..m] : k \in ArgLo..top} :
            /\ IsInjective(p)
            /\ \A i \in DOMAIN p : SatisfiesConstraints(ggctx[p[i]])
            /\ WalkEnd(ggctx, fcinfo.dir, p, fcinfo.vsid) = fcinfo.veid}

ValidRange == ArgLo >= 0 /\ (ArgHiInfinite \/ ArgHi >= ArgLo)

\* C1: when the engine reports done, the set of yielded paths equals the set
\* of all edge-unique paths from vsid to veid with a length in [lo, hi] whose
\* edges satisfy the constraints, for every lo >= 0 and hi >= lo or infinite.
C1_YieldsExactlyAllPaths ==
    (pc = "done" /\ ValidRange) => YieldedEdgeSeqs = AllPaths

\* The engine is complete and sound for the paths of at least one edge.
VleYieldsAllNonEmptyPaths ==
    (pc = "done" /\ ValidRange) => YieldedEdgeSeqs = AllPaths \ {<<>>}

\* C2: no edge id occurs more than once in any yielded path.
C2_NoEdgeTwiceInPath ==
    \A i \in DOMAIN yielded : IsInjective(EdgesOf(yielded[i]))

HasSelfLoop == \E e \in DOMAIN ggctx : ggctx[e].start_id = ggctx[e].end_id

HasParallelEdges ==
    \E e, f \in DOMAIN ggctx :
        e # f /\ {ggctx[e].start_id, ggctx[e].end_id} = {ggctx[f].start_id, ggctx[f].end_id}

C2_Witness ==
    /\ fcinfo.dir = "NONE"
    /\ HasSelfLoop /\ HasParallelEdges
    /\ \E i \in DOMAIN yielded : Len(EdgesOf(yielded[i])) = 3

\* C3: every yielded path has a number of edges k with lo <= k, and k <= hi
\* whenever hi is finite (lo defaults to 1 when omitted).
C3_LengthInBounds ==
    \A i \in DOMAIN yielded :
        LET k == Len(EdgesOf(yielded[i]))
        IN  ArgLo <= k /\ (ArgHiInfinite \/ k <= ArgHi)

C3_Witness ==
    /\ fcinfo.lo.isnull /\ ~fcinfo.hi.isnull
    /\ Len(ggctx) = 3
    /\ Len(yielded) >= 2

\* C4: every yielded array of 2k+1 ids starts with vsid, ends with veid, and
\* each edge joins the vertex before it to the vertex after it in the
\* requested direction.
C4_ConnectedWalk ==
    \A i \in DOMAIN yielded :
        LET arr == yielded[i]
            k   == Len(EdgesOf(arr))
        IN  /\ Len(arr) = 2 * k + 1
            /\ arr[1] = fcinfo.vsid
            /\ arr[Len(arr)] = fcinfo.veid
            /\ \A j \in 1..k :
                  /\ arr[2 * j] \in DOMAIN ggctx
                  /\ Joins(ggctx[arr[2 * j]], arr[2 * j - 1], arr[2 * j + 1], fcinfo.dir)

C4_Witness ==
    /\ fcinfo.dir = "LEFT"
    /\ \E i \in DOMAIN yielded :
          /\ Len(yielded[i]) = 5
          /\ yielded[i][3] # yielded[i][1]

\* C5: across the calls of one invocation no path is yielded twice: any two
\* yields differ in their sequence of edge ids.
C5_NoPathTwice ==
    \A i, j \in DOMAIN yielded : i # j => EdgesOf(yielded[i]) # EdgesOf(yielded[j])

C5_Witness ==
    /\ Len(yielded) >= 3
    /\ HasSelfLoop
    /\ pc = "done"

\* C6: each call yields exactly one path or reports done, the stacks and the
\* visited map left by a call that yielded are those the next call resumes
\* from, and done is reported only when the edge stack is empty.
C6_OnePathPerCall ==
    /\ [](/\ pc = "yield" => Len(yielded) = calls
          /\ pc = "dfs" => Len(yielded) = calls - 1
          /\ pc = "done" => Len(yielded) = calls - 1 /\ dfs_edge_queue = <<>>)
    /\ [][pc = "yield" =>
            /\ pc' = "dfs"
            /\ <<edge_state, dfs_vertex_queue, dfs_edge_queue, dfs_path_queue>>' =
               <<edge_state, dfs_vertex_queue, dfs_edge_queue, dfs_path_queue>>]_vars

C6_Witness ==
    /\ pc = "done"
    /\ calls = 3

(***************************************************************************)
(* Claims about _ag_enforce_edge_uniqueness.                               *)
(***************************************************************************)
\* the edge ids in a VLE path: the entries at the even 0-based positions
VariableEdgeIds(entries) == [j \in 1..((Len(entries) + 1) \div 2) |-> entries[2 * j - 1]]

RECURSIVE AllEdgeIdsGiven(_)
AllEdgeIdsGiven(args) ==
    IF args = <<>> THEN <<>>
    ELSE (IF Head(args).type = "GRAPHIDOID" THEN Head(args).val
          ELSE VariableEdgeIds(Head(args).val)) \o AllEdgeIdsGiven(Tail(args))

\* C7: enforce_edge_uniqueness returns false if and only if some edge id
\* occurs more than once among the fixed edge ids and the edge ids of the VLE
\* paths it is given; otherwise it returns true.
C7_FalseIffDuplicateEdge ==
    uq_result # "pending" =>
        (uq_result = "false" <=> ~IsInjective(AllEdgeIdsGiven(uq_args)))

C7_Witness ==
    /\ uq_result = "false"
    /\ Len(uq_args) = 2
    /\ uq_args[1].type = "GRAPHIDOID"
    /\ uq_args[2].type = "VARIABLEEDGEOID"
    /\ Len(uq_args[2].val) = 3
    /\ uq_args[2].val[3] = uq_args[1].val[1]
    /\ uq_args[2].val[1] # uq_args[1].val[1]

(***************************************************************************)
(* Claims about the uniqueness qual of a MATCH clause.                     *)
(***************************************************************************)
\* the edges of the clause: <<path, position in the path>>
EdgesOfPattern ==
    UNION {{<<p, 2 * i>> : i \in 1..Len(mt_pattern[p])} : p \in DOMAIN mt_pattern}

\* the edges one emitted call is over
QualEdges(q) == {<<q.args[j].path, q.args[j].pos>> : j \in DOMAIN q.args}

CoveredTogether(e1, e2) ==
    \E j \in DOMAIN mt_quals : {e1, e2} \subseteq QualEdges(mt_quals[j])

\* C8: once the WHERE of a MATCH clause is emitted, every two distinct edges
\* of the clause, in the same path or in different comma-separated paths,
\* are arguments of one emitted _ag_enforce_edge_uniqueness call.
C8_UniquenessCoversAllPaths ==
    mt_pc = "done" =>
        \A e1, e2 \in EdgesOfPattern : e1 # e2 => CoveredTogether(e1, e2)

\* what the transform does emit: every two distinct edges of the same path
\* are arguments of one call
MatchUniquenessWithinEachPath ==
    mt_pc = "done" =>
        \A e1, e2 \in EdgesOfPattern :
            (e1 # e2 /\ e1[1] = e2[1]) => CoveredTogether(e1, e2)

(***************************************************************************)
(* Claims about the expression grammar.                                    *)
(***************************************************************************)
\* the comparison operators of Cypher, by the names the grammar gives them
ComparisonOperators == {"=", "<>", "<", "<=", ">", ">="}

IsComparison(n) == n.tag = "A_Expr" /\ n.op \in ComparisonOperators

IsAndChainEndingIn(n, ops) ==
    /\ n.tag = "BoolExpr"
    /\ n.op = "AND_EXPR"
    /\ llast(n.args).tag = "A_Expr"
    /\ llast(n.args).op \in ops

\* what the last comparison must have produced when the comparisons over ops
\* are the ones that chain
ChainsOver(ops) ==
    LET L  == ex_last.left
        R  == ex_last.right
        op == ex_last.opr_name
    IN  /\ (L.tag = "A_Expr" /\ L.op \in ops) =>
               ex_last.result =
                   makeBoolExpr("AND_EXPR", <<L, makeSimpleA_Expr(op, L.args[2], R)>>)
        /\ IsAndChainEndingIn(L, ops) =>
               ex_last.result =
                   makeBoolExpr("AND_EXPR",
                                Append(L.args,
                                       makeSimpleA_Expr(op, llast(L.args).args[2], R)))

\* C9: for every pair of comparison operators among =, <>, <, <=, > and >=,
\* parsing L op R where L is the comparison X op1 Y produces
\* (X op1 Y) AND (Y op R), and where L is an AND-chain whose last conjunct is
\* the comparison X op1 Y the result is that chain with Y op R appended.
C9_ComparisonChaining ==
    ex_last.opr_name # "" => ChainsOver(ComparisonOperators)

\* what the builders do: the same, for a left comparison other than >=
ComparisonChainingExceptAfterGtEq ==
    ex_last.opr_name # "" => ChainsOver(ComparisonOperators \ {">="})

\* no node of the tree has an operand, among the operands at the positions
\* pos selects, that is the same connective as the node
RECURSIVE NoSameConnectiveOperand(_, _)
NoSameConnectiveOperand(n, first_only) ==
    /\ (n.tag = "BoolExpr" /\ n.op \in {"AND_EXPR", "OR_EXPR"}) =>
           \A i \in (IF first_only THEN {1} ELSE DOMAIN n.args) :
               ~(n.args[i].tag = "BoolExpr" /\ n.args[i].op = n.op)
    /\ \A i \in DOMAIN n.args : NoSameConnectiveOperand(n.args[i], first_only)

EmittedTree == ex_values[1]

\* C10 as stated: in every tree the parser emits no AND node has an AND node
\* as a direct operand and no OR node has an OR node as a direct operand.
C10_MaximallyFlattened ==
    ex_pc = "accepted" => NoSameConnectiveOperand(EmittedTree, FALSE)

\* C10: in every tree the parser emits for an expression without XOR, no AND
\* node has an AND node as its first operand and no OR node has an OR node as
\* its first operand; an operand after the first may be the same connective.
C10_FirstOperandFlattened ==
    (ex_pc = "accepted" /\ "XOR" \notin Range(ex_source)) =>
        NoSameConnectiveOperand(EmittedTree, TRUE)

\* v1 < v2 AND v3 <= v4 < v5 is emitted as an AND of v1 < v2 and the AND of
\* the chain
C10_Witness ==
    /\ ex_pc = "accepted"
    /\ ex_source = <<"v1", "<", "v2", "AND", "v3", "LT_EQ", "v4", "<", "v5">>
    /\ EmittedTree =
           makeBoolExpr("AND_EXPR",
               <<makeSimpleA_Expr("<", Var("v1"), Var("v2")),
                 makeBoolExpr("AND_EXPR",
                     <<makeSimpleA_Expr("<=", Var("v3"), Var("v4")),
                       makeSimpleA_Expr("<", Var("v4"), Var("v5"))>>)>>)

(***************************************************************************)
(* Claims about XOR.                                                       *)
(***************************************************************************)
\* the truth value of the tree n when the subtrees a and b have the truth
\* values va and vb
RECURSIVE TruthValue(_, _, _, _, _)
TruthValue(n, a, b, va, vb) ==
    IF n = a THEN va
    ELSE IF n = b THEN vb
    ELSE IF n.tag = "BoolExpr" /\ n.op = "AND_EXPR"
         THEN \A i \in DOMAIN n.args : TruthValue(n.args[i], a, b, va, vb)
    ELSE IF n.tag = "BoolExpr" /\ n.op = "OR_EXPR"
         THEN \E i \in DOMAIN n.args : TruthValue(n.args[i], a, b, va, vb)
    ELSE IF n.tag = "BoolExpr" /\ n.op = "NOT_EXPR"
         THEN ~TruthValue(n.args[1], a, b, va, vb)
    ELSE FALSE

\* the step reduces expr: expr XOR expr
IsXorReduction ==
    /\ BinaryHandle(ex_stack)
    /\ ex_stack[Len(ex_stack) - 1] = "XOR"
    /\ ex_stack' = Append(Pop(ex_stack, 3), "expr")

\* C11: A XOR B is rewritten at parse time into (A OR B) AND NOT (A AND B),
\* which is true exactly when one of A and B is true and the other is false,
\* for all boolean values of A and B.
C11_XorDesugared ==
    [][IsXorReduction =>
          LET A == Dollar1(ex_values)
              B == Dollar3(ex_values)
              n == llast(ex_values')
          IN  /\ n = makeBoolExpr("AND_EXPR",
                        <<makeBoolExpr("OR_EXPR", <<A, B>>),
                          makeBoolExpr("NOT_EXPR",
                                       <<makeBoolExpr("AND_EXPR", <<A, B>>)>>)>>)
              /\ \A va, vb \in BOOLEAN :
                     TruthValue(n, A, B, va, vb) = (va # vb)]_vars

\* v1 XOR v2 < v3 has been parsed: XOR was reduced over a comparison
C11_Witness ==
    /\ ex_pc = "accepted"
    /\ ex_source = <<"v1", "XOR", "v2", "<", "v3">>
    /\ EmittedTree.op = "AND_EXPR"
    /\ EmittedTree.args[1].op = "OR_EXPR"
    /\ EmittedTree.args[2].op = "NOT_EXPR"
    /\ EmittedTree.args[1].args[2] = makeSimpleA_Expr("<", Var("v2"), Var("v3"))

(***************************************************************************)
(* Reference notions for the range claims, stated on the written range.    *)
(***************************************************************************)
WrittenLo == IF rg_source.first = Absent THEN 1 ELSE rg_source.first

WrittenHiInfinite ==
    rg_source.form = "star" \/ (rg_source.form = "dots" /\ rg_source.second = Absent)

WrittenHi == IF rg_source.form = "idx" THEN rg_source.first ELSE rg_source.second

\* the node a bound becomes: an integer constant, none for an infinite upper
WrittenLoNode == make_int_const(WrittenLo)

WrittenHiNode == IF WrittenHiInfinite THEN NullPointer ELSE make_int_const(WrittenHi)

\* C12: the bounds of a variable length relationship reach the engine as
\* written: "*" as 1..infinity, "*n" as n..n, "*lo.." as lo..infinity,
\* "*..hi" as 1..hi and "*lo..hi" as lo..hi; the call of the engine does not
\* fail on them.
C12_BoundsReachEngine ==
    /\ rg_pc # "not an integer"
    /\ rg_pc = "context" =>
          /\ rg_ctx.lidx = WrittenLo
          /\ rg_ctx.uidx_infinite = WrittenHiInfinite
          /\ ~WrittenHiInfinite => rg_ctx.uidx = WrittenHi

\* what holds of the grammar alone: cypher_varlen_opt resolves the range as
\* written, and the vle call build_VLE_relation stores carries these bounds
GrammarResolvesRange ==
    /\ rg_pc = "relationship" /\ rg_source.form # "none" =>
          rg_varlen = A_Indices(WrittenLoNode, WrittenHiNode)
    /\ rg_pc = "parsed" /\ rg_source.form # "none" =>
          /\ rg_varlen.tag = "FuncCall"
          /\ rg_varlen.args.lidx = WrittenLoNode
          /\ rg_varlen.args.uidx =
                IF WrittenHiInfinite THEN make_null_const ELSE WrittenHiNode

\* a range written "*2..3" has reached the engine
C12_Reached ==
    /\ rg_pc \in {"context", "not an integer"}
    /\ rg_source = [form |-> "dots", first |-> 2, second |-> 3]

\* C14: a range whose finite upper bound is smaller than its lower bound,
\* written or defaulted to 1, is rejected by the parser with "invalid range",
\* and no other range is; the range of every relationship the parser builds
\* has lidx <= uidx or no uidx.
C14_InvalidRangeRejected ==
    /\ rg_pc # "varlen_opt" /\ rg_source.form # "none" =>
          (rg_pc = "invalid range") = (~WrittenHiInfinite /\ WrittenHi < WrittenLo)
    /\ rg_source.form = "none" => rg_pc # "invalid range"
    /\ rg_pc = "relationship" /\ rg_varlen # NullPointer =>
          \/ rg_varlen.uidx = NullPointer
          \/ rg_varlen.lidx.ival <= rg_varlen.uidx.ival

\* "*..0" is rejected: the lower bound defaults to 1
C14_Witness ==
    /\ rg_pc = "invalid range"
    /\ rg_source = [form |-> "dots", first |-> Absent, second |-> 0]

(***************************************************************************)
(* Reference notions for the clause grammar claim, stated on the clauses   *)
(* of the statement.                                                       *)
(***************************************************************************)
\* reading* updating*
IsReadingThenUpdating(s) ==
    \E k \in 0..Len(s) :
        /\ \A i \in 1..k : s[i] \in ReadingClauses
        /\ \A i \in (k + 1)..Len(s) : s[i] \in UpdatingClauses

\* reading* updating* WITH
IsInitPart(s) ==
    /\ s # <<>>
    /\ s[Len(s)] = "WITH"
    /\ IsReadingThenUpdating(SubSeq(s, 1, Len(s) - 1))

\* reading* (updating+ | updating* RETURN)
IsLastPart(s) ==
    /\ s # <<>>
    /\ \/ s[Len(s)] \in UpdatingClauses /\ IsReadingThenUpdating(s)
       \/ s[Len(s)] = "RETURN" /\ IsReadingThenUpdating(SubSeq(s, 1, Len(s) - 1))

\* (reading* updating* WITH)* reading* (updating+ | updating* RETURN)
RECURSIVE MatchesSingleQuery(_)
MatchesSingleQuery(s) ==
    \/ IsLastPart(s)
    \/ \E k \in 1..(Len(s) - 1) :
          /\ IsInitPart(SubSeq(s, 1, k))
          /\ MatchesSingleQuery(SubSeq(s, k + 1, Len(s)))

SqParsed == sq_pc \notin {"idle", "parsing"}

\* C13: the parser accepts a sequence of clauses exactly when it matches
\* (reading* updating* WITH)* reading* (updating+ | updating* RETURN), with
\* MATCH and UNWIND reading and CREATE, SET, REMOVE, DELETE, MERGE and CALL
\* updating.
C13_AcceptedIffShape ==
    SqParsed => ((sq_pc = "accepted") = MatchesSingleQuery(sq_source))

\* C13 as the parser has it: the shape is necessary, and sufficient for
\* statements without CALL; a CALL standing where an updating clause may
\* stand is rejected with "CALL not supported yet".  In an accepted statement
\* no reading clause follows an updating clause without a WITH in between,
\* nothing follows RETURN, and the last clause is neither reading nor WITH.
C13_AcceptedIffShapeWithoutCall ==
    /\ SqParsed =>
          (sq_pc = "accepted") =
             (MatchesSingleQuery(sq_source) /\ \A i \in 1..Len(sq_source) : sq_source[i] # "CALL")
    /\ sq_pc = "CALL not supported yet" =>
          /\ sq_input # <<>> /\ Head(sq_input) = "CALL"
          /\ \E rest \in SeqsOver({"CREATE", "RETURN"}, 1) :
                MatchesSingleQuery(SubSeq(sq_source, 1, Len(sq_source) - Len(sq_input) + 1) \o rest)
    /\ sq_pc = "accepted" =>
          /\ \A i, j \in 1..Len(sq_source) :
                (i < j /\ sq_source[i] \in UpdatingClauses /\ sq_source[j] \in ReadingClauses)
                   => \E k \in (i + 1)..(j - 1) : sq_source[k] = "WITH"
          /\ \A i \in 1..(Len(sq_source) - 1) : sq_source[i] # "RETURN"
          /\ sq_source[Len(sq_source)] \notin ReadingClauses \cup {"WITH"}

\* a statement of two parts is accepted
C13_Witness ==
    /\ sq_pc = "accepted"
    /\ sq_source = <<"MATCH", "CREATE", "WITH", "MATCH", "RETURN">>

(***************************************************************************)
(* Reference notions for the join claims: the entities of a transformed    *)
(* path, and the meaning of the emitted quals on a graph.                  *)
(***************************************************************************)
MaxJoinVertices == 2

JnDone == jn_pc = "done"

\* places of the edges in jn_entities
EdgePlaces == {k \in 1..Len(jn_entities) : k % 2 = 0}

\* places of the nodes with an edge on either side
SharedPlaces == {k \in 3..(Len(jn_entities) - 2) : k % 2 = 1}

RelAt(k) == list_nth(jn_path.path, jn_entities[k].pos)

RECURSIVE Mentions(_, _)
Mentions(x, pos) ==
    IF x.tag = "ColumnRef" THEN x.rel = pos
    ELSE \E i \in 1..Len(x.args) : Mentions(x.args[i], pos)

\* x is the equality of a and b, written either way round
Equates(x, a, b) ==
    x.tag = "A_Expr" /\ x.op = "=" /\ {x.args[1], x.args[2]} = {a, b}

IsConjunctionOf(l, a1, b1, a2, b2) ==
    Len(l) = 2 /\ Equates(l[1], a1, b1) /\ Equates(l[2], a2, b2)

\* C15: for a fixed edge e whose previous node p and next node q are both
\* in the join tree, the quals that mention e are p.id = e.start_id AND
\* q.id = e.end_id when e points right, p.id = e.end_id AND q.id = e.start_id
\* when e points left, and the disjunction of the two when e is undirected.
C15_FixedEdgeJoinCondition ==
    JnDone =>
      \A k \in EdgePlaces :
        LET e == jn_entities[k]
            p == jn_entities[k - 1]
            q == jn_entities[k + 1]
            mine == SelectSeq(jn_quals, LAMBDA x : Mentions(x, e.pos))
            p_id == make_qual(p, "id")
            q_id == make_qual(q, "id")
            start_id == make_qual(e, "start_id")
            end_id == make_qual(e, "end_id")
        IN  (e.type = "ENT_EDGE" /\ p.in_join_tree /\ q.in_join_tree) =>
              CASE RelAt(k).dir = "RIGHT" ->
                      IsConjunctionOf(mine, p_id, start_id, q_id, end_id)
                [] RelAt(k).dir = "LEFT" ->
                      IsConjunctionOf(mine, p_id, end_id, q_id, start_id)
                [] OTHER ->
                      /\ Len(mine) = 1
                      /\ mine[1].tag = "BoolExpr" /\ mine[1].op = "OR_EXPR"
                      /\ Len(mine[1].args) = 2
                      /\ \A i \in 1..2 : /\ mine[1].args[i].tag = "BoolExpr"
                                         /\ mine[1].args[i].op = "AND_EXPR"
                      /\ IsConjunctionOf(mine[1].args[1].args,
                                         p_id, start_id, q_id, end_id)
                      /\ IsConjunctionOf(mine[1].args[2].args,
                                         p_id, end_id, q_id, start_id)

\* (n1)<-[]-(n2)-[]-(n3): a left and an undirected edge between named nodes
C15_Witness ==
    /\ JnDone
    /\ Len(jn_entities) = 5
    /\ \A k \in {1, 3, 5} : jn_source.path[k].name # NoName
    /\ \A k \in {2, 4} : jn_entities[k].type = "ENT_EDGE"
    /\ RelAt(2).dir = "LEFT"
    /\ RelAt(4).dir = "NONE"
    /\ Len(jn_quals) = 3

\* the graphs the quals are read on: an id for every node of the path and
\* the two ends of every edge
JoinVertices == 1..MaxJoinVertices

Bindings ==
    [ids : [{k \in 1..Len(jn_entities) : k % 2 = 1} -> JoinVertices],
     ends : [EdgePlaces -> [start_id : JoinVertices, end_id : JoinVertices]]]

PlaceOf(pos) == CHOOSE k \in 1..Len(jn_entities) : jn_entities[k].pos = pos

ValueOf(x, b) ==
    IF x.col = "id" THEN b.ids[PlaceOf(x.rel)] ELSE b.ends[PlaceOf(x.rel)][x.col]

\* a qual on a label holds on the graphs considered: every vertex has the
\* label asked for
RECURSIVE Holds(_, _)
Holds(x, b) ==
    CASE x.tag = "BoolExpr" /\ x.op = "AND_EXPR" ->
            \A i \in 1..Len(x.args) : Holds(x.args[i], b)
      [] x.tag = "BoolExpr" /\ x.op = "OR_EXPR" ->
            \E i \in 1..Len(x.args) : Holds(x.args[i], b)
      [] x.tag = "A_Expr_IN" ->
            \E i \in 2..Len(x.args) : ValueOf(x.args[1], b) = ValueOf(x.args[i], b)
      [] x.tag = "A_Expr" /\ x.args[1].tag = "ColumnRef" /\ x.args[2].tag = "ColumnRef" ->
            ValueOf(x.args[1], b) = ValueOf(x.args[2], b)
      [] OTHER -> TRUE

WhereHolds(b) == \A i \in 1..Len(jn_quals) : Holds(jn_quals[i], b)

\* the edge at place k leads from vertex x to vertex y of the pattern
Connects(k, b, x, y) ==
    LET e == b.ends[k]
        right == e.start_id = x /\ e.end_id = y
        left == e.start_id = y /\ e.end_id = x
    IN  CASE RelAt(k).dir = "RIGHT" -> right
          [] RelAt(k).dir = "LEFT"  -> left
          [] OTHER                  -> right \/ left

\* the edges of b form a path through the vertices of b
IsPath(b) == \A k \in EdgePlaces : Connects(k, b, b.ids[k - 1], b.ids[k + 1])

\* the nodes outside the join tree can be given ids that make b a path
CanBePath(b) ==
    \E c \in Bindings :
        /\ c.ends = b.ends
        /\ \A k \in DOMAIN b.ids : jn_entities[k].in_join_tree => c.ids[k] = b.ids[k]
        /\ IsPath(c)

\* a path of fixed edges with a shared node outside the join tree
HasSharedNodeOutsideJoinTree ==
    /\ JnDone
    /\ \A k \in EdgePlaces : jn_entities[k].type = "ENT_EDGE"
    /\ \E k \in SharedPlaces : ~jn_entities[k].in_join_tree

\* C16: when the node shared by two consecutive fixed edges is not in the
\* join tree, the emitted quals still force the two edges to meet: on every
\* graph on which the quals hold, the end of the first edge on the shared
\* side is the end of the second edge on the shared side, whatever the
\* directions of the two edges.
C16_SharedEndpointForced ==
    HasSharedNodeOutsideJoinTree => \A b \in Bindings : WhereHolds(b) => CanBePath(b)

\* what holds: the same, unless both edges at such a node are undirected
SharedEndpointForcedUnlessBothUndirected ==
    (/\ HasSharedNodeOutsideJoinTree
     /\ \A k \in SharedPlaces :
           ~jn_entities[k].in_join_tree =>
              (RelAt(k - 1).dir # "NONE" \/ RelAt(k + 1).dir # "NONE"))
    => \A b \in Bindings : WhereHolds(b) => CanBePath(b)

\* the quals do say something: they fail on a graph that is no path
JoinQualsExclude ==
    HasSharedNodeOutsideJoinTree => \E b \in Bindings : ~WhereHolds(b)

C16_Reached ==
    /\ HasSharedNodeOutsideJoinTree
    /\ RelAt(2).dir = "NONE"
    /\ RelAt(4).dir = "NONE"
    /\ jn_entities[1].in_join_tree
    /\ jn_entities[5].in_join_tree

WrittenNode(k) == jn_source.path[jn_entities[k].pos + 1]

\* C17: a node of a MATCH path is in the join tree exactly when it is
\* written with a variable name, a label or property constraints.
C17_IncludedIffNameLabelOrProps ==
    JnDone =>
      \A k \in 1..Len(jn_entities) :
        k % 2 = 1 =>
          jn_entities[k].in_join_tree =
             (\/ WrittenNode(k).name # NoName
              \/ WrittenNode(k).label # NoLabel
              \/ WrittenNode(k).props)

\* the transform names a node that stands next to a variable length
\* relationship, and the last node of a single undirected relationship
\* whose first node is outside the join tree
NamedByTransform(k) ==
    \/ k > 1 /\ jn_entities[k - 1].type = "ENT_VLE_EDGE"
    \/ k < Len(jn_entities) /\ jn_entities[k + 1].type = "ENT_VLE_EDGE"
    \/ /\ k = 3
       /\ Len(jn_entities) = 3
       /\ jn_entities[2].type = "ENT_EDGE"
       /\ RelAt(2).dir = "NONE"
       /\ ~jn_entities[1].in_join_tree

\* C17 as the transform has it: a node is in the join tree exactly when the
\* path has a variable, or the node has a name, written or given by the
\* transform, or property constraints; a label alone does not include it.
C17_IncludedIffPathVarNameOrProps ==
    JnDone =>
      \A k \in 1..Len(jn_entities) :
        k % 2 = 1 =>
          jn_entities[k].in_join_tree =
             (\/ jn_source.var_name
              \/ WrittenNode(k).name # NoName
              \/ WrittenNode(k).props
              \/ NamedByTransform(k))

\* (:L)-[]->(n2): the first node has a label only and is not in the join tree
C17_Witness ==
    /\ JnDone
    /\ Len(jn_entities) = 3
    /\ ~jn_source.var_name
    /\ WrittenNode(1) = [name |-> NoName, label |-> "L", props |-> FALSE]
    /\ ~jn_entities[1].in_join_tree
    /\ jn_entities[3].in_join_tree

(***************************************************************************)
(* Reference notions for the WITH claim.                                   *)
(***************************************************************************)
\* the query is the RETURN projection of the clause, filtered by pred
IsFilteredProjection(query, clause, pred) ==
    /\ "quals" \in DOMAIN query
    /\ query.quals = pred
    /\ query.rtable = <<transform_cypher_return(clause)>>
    /\ query.targetList = clause.items

\* C18: the query emitted for a WITH clause with a WHERE predicate is the
\* RETURN projection of the clause with the predicate applied to its rows
\* as a filter.
C18_WithWhereFilters ==
    (wt_pc = "done" /\ wt_clause.where # NoNode) =>
        IsFilteredProjection(wt_query, wt_clause, wt_clause.where)

\* what holds: the emitted query is the RETURN projection, or a query over
\* it that filters nothing
WithEmitsUnfilteredProjection ==
    wt_pc = "done" =>
        \/ wt_query = transform_cypher_return(wt_clause)
        \/ IsFilteredProjection(wt_query, wt_clause, NoNode)

\* a WITH clause with a WHERE has been transformed
C18_Reached ==
    /\ wt_pc = "done"
    /\ wt_clause.where = Var("where")

(***************************************************************************)
(* Reference notions for the column merge claim.                           *)
(***************************************************************************)
RcJoined == rc_pc \in {"optional match", "merge"}

NamesOf(cols) == {cols[i].name : i \in 1..Len(cols)}

\* the places of the right columns whose name is not on the left
NewOnRight == {i \in 1..Len(rc_right) : rc_right[i].name \notin NamesOf(rc_left)}

\* the column a name resolves to: the first target of that name
ResolvesTo(name) ==
    LET first == CHOOSE i \in 1..Len(rc_targets) :
                    /\ rc_targets[i].resname = name
                    /\ \A j \in 1..(i - 1) : rc_targets[j].resname # name
    IN  rc_targets[first].expr

\* C19: the merged column list is all left columns in their order, then
\* exactly the right columns whose name is not on the left, in their order;
\* a name on both sides resolves to the left column.
C19_LeftThenNewRight ==
    RcJoined =>
      LET n == Len(rc_left)
          rest == {i \in 1..Len(rc_targets) : i > n}
      IN  /\ Len(rc_targets) = n + Cardinality(NewOnRight)
          /\ \A i \in 1..n : /\ rc_targets[i].resname = rc_left[i].name
                             /\ rc_targets[i].expr = rc_left[i].var
          /\ \A i \in rest : /\ rc_targets[i].expr.rte = "r_rte"
                             /\ rc_targets[i].expr.attno \in NewOnRight
                             /\ rc_targets[i].resname = rc_right[rc_targets[i].expr.attno].name
          /\ \A i, j \in rest : i < j => rc_targets[i].expr.attno < rc_targets[j].expr.attno
          /\ \A name \in NamesOf(rc_left) \cap NamesOf(rc_right) :
                ResolvesTo(name).rte = "l_rte"

\* left (a, b) joined to right (b, c): the columns are a, b of the left and
\* c of the right
C19_Witness ==
    /\ rc_pc = "optional match"
    /\ rc_left = ColumnsOf("l_rte", <<"a", "b">>)
    /\ rc_right = ColumnsOf("r_rte", <<"b", "c">>)
    /\ Len(rc_targets) = 3
    /\ rc_targets[3].expr = [rte |-> "r_rte", attno |-> 2]

(***************************************************************************)
(* C20: the entities at the clause boundaries.                             *)
(***************************************************************************)
ScRunning == sc_pc \in {"transform", "done"}

\* the entities of the clauses lo..hi, in the order their patterns make them
RECURSIVE EntitiesOfClauses(_, _)
EntitiesOfClauses(lo, hi) ==
    IF hi < lo THEN <<>>
    ELSE EntitiesOfClauses(lo, hi - 1)
         \o [no \in 1..sc_clauses[hi].binds |-> <<hi, no>>]

MadeAs(entities) ==
    [i \in 1..Len(entities) |-> <<entities[i].clause, entities[i].no>>]

\* C20, as stated: in the parse state at work, the entities flagged
\* declared_in_current_clause are exactly the entities of the clause that
\* the state transforms.  This fails in the parse state of a clause that
\* has been transformed as a subquery of itself.
C20_FlaggedAreOfClause ==
    ScRunning =>
        \A i \in 1..Len(ScTop.entities) :
            ScTop.entities[i].declared_in_current_clause
                <=> ScTop.entities[i].clause = ScTop.clause

\* C20, as the code has it: in every parse state the entities flagged
\* declared_in_current_clause are exactly the ones made in that parse
\* state; the entities handed over by analyze_cypher_clause are unflagged;
\* and a parse state whose transform has returned holds the entities of
\* its clauses, each once, in the order they were made.
C20_FlaggedAreMadeInParseState ==
    ScRunning =>
        \A d \in 1..Len(sc_stack) :
            LET f == sc_stack[d]
            IN  /\ \A i \in 1..Len(f.entities) :
                       f.entities[i].declared_in_current_clause
                           <=> f.entities[i].scope = d
                /\ Transformed(f, d) =>
                       MadeAs(f.entities) =
                           EntitiesOfClauses(IF f.has_prev THEN 1 ELSE f.clause,
                                             f.clause)

\* a clause at work on its own pattern after the clause before it was
\* handed over: an unflagged entity and a flagged one in the same list
C20_Witness ==
    /\ sc_pc = "transform"
    /\ Len(sc_stack) >= 2
    /\ \E i, j \in 1..Len(ScTop.entities) :
           /\ ~ScTop.entities[i].declared_in_current_clause
           /\ ScTop.entities[i].clause < ScTop.clause
           /\ ScTop.entities[j].declared_in_current_clause
           /\ ScTop.entities[j].clause = ScTop.clause

\* the parse state of a MATCH with WHERE after the pattern came back from
\* its subquery: the entities of the clause, none of them flagged
WhereWrapperHoldsOwnUnflagged ==
    /\ sc_pc = "transform"
    /\ IsWhereWrapper(ScTop)
    /\ ScTop.stage = "end"
    /\ \E i \in 1..Len(ScTop.entities) :
           /\ ScTop.entities[i].clause = ScTop.clause
           /\ ~ScTop.entities[i].declared_in_current_clause

(***************************************************************************)
(* C24: the engine terminates.                                             *)
(***************************************************************************)
\* the entry i of the edge stack (1 = top) is the one the path went through
IsTakenEntry(i) ==
    /\ get_edge_state(edge_state, dfs_edge_queue[i])
    /\ \A j \in 1..(i - 1) : dfs_edge_queue[j] # dfs_edge_queue[i]

\* the length the path has once the entry i is taken
DepthOfEntry(i) ==
    1 + Cardinality({j \in (i + 1)..Len(dfs_edge_queue) : IsTakenEntry(j)})

\* the steps an entry not yet taken can still cost: it is taken, at most
\* every edge not on the path is pushed above it, and it is popped
RECURSIVE StepsOfUntaken(_)
StepsOfUntaken(d) ==
    IF d >= Len(ggctx) THEN 3
    ELSE 3 + (Len(ggctx) - d) * StepsOfUntaken(d + 1)

RECURSIVE StepsOfStack(_)
StepsOfStack(i) ==
    IF i > Len(dfs_edge_queue) THEN 0
    ELSE (IF IsTakenEntry(i) THEN 1 ELSE StepsOfUntaken(DepthOfEntry(i)))
         + StepsOfStack(i + 1)

\* a bound on the steps the engine has left
StepsLeft ==
    CASE pc = "start" -> StepsOfUntaken(0)
      [] pc = "dfs"   -> StepsOfStack(1) + 1
      [] pc = "yield" -> StepsOfStack(1) + 2
      [] OTHER        -> 0

\* C24: every call of the engine returns, with a path or with done, and
\* after finitely many calls the engine reports done; every step of the
\* engine lowers the bound on the steps left
C24_EngineTerminates ==
    /\ (pc = "dfs") ~> (pc \in {"yield", "done"})
    /\ <>(pc = "done")
    /\ [][StepsLeft' < StepsLeft]_vars

\* done after several paths, on a graph with a self-loop and a cycle,
\* searched without an upper bound in both directions
C24_Witness ==
    /\ pc = "done"
    /\ path_ctx.uidx_infinite
    /\ path_ctx.edge_direction = "NONE"
    /\ Len(yielded) >= 2
    /\ \E e \in 1..Len(ggctx) : ggctx[e].start_id = ggctx[e].end_id
    /\ \E e, f \in 1..Len(ggctx) :
           /\ e # f
           /\ ggctx[e].start_id # ggctx[e].end_id
           /\ ggctx[f].start_id = ggctx[e].end_id
           /\ ggctx[f].end_id = ggctx[e].start_id

(***************************************************************************)
(* C27: the edges of a yielded path satisfy the edge constraints.          *)
(***************************************************************************)
\* C27: every edge of every yielded path has the label of the invocation
\* when one is given and holds every pair of the props template when one
\* is given.
C27_EdgesSatisfyConstraints ==
    \A i \in DOMAIN yielded :
        \A j \in DOMAIN EdgesOf(yielded[i]) :
            LET ee == ggctx[EdgesOf(yielded[i])[j]]
            IN  /\ fcinfo.label.isnull \/ ee.label = fcinfo.label.val
                /\ fcinfo.props.isnull
                   \/ \A c \in fcinfo.props.val : c \in ee.properties

\* a template is given, the graph holds an edge at vsid that fails it, and a
\* path over two other edges, a self-loop among them, has been yielded
C27_Witness ==
    /\ ~fcinfo.props.isnull
    /\ \E e \in DOMAIN ggctx :
           /\ ~SatisfiesConstraints(ggctx[e])
           /\ fcinfo.vsid \in {ggctx[e].start_id, ggctx[e].end_id}
    /\ \E i \in DOMAIN yielded :
           /\ Len(EdgesOf(yielded[i])) = 2
           /\ \E j \in 1..2 :
                  LET ee == ggctx[EdgesOf(yielded[i])[j]]
                  IN  ee.start_id = ee.end_id

(***************************************************************************)
(* C25: the order in which the paths are yielded.                          *)
(***************************************************************************)
\* the edges of vertex v that may extend the path p, in the order of the
\* out list, then the in list, then the self list
CandidateEdges(v, p) ==
    LET out  == IF fcinfo.dir # "LEFT"
                THEN get_vertex_entry_edges_out(ggctx, v) ELSE <<>>
        inl  == IF fcinfo.dir # "RIGHT"
                THEN get_vertex_entry_edges_in(ggctx, v) ELSE <<>>
        self == get_vertex_entry_edges_self(ggctx, v)
    IN  SelectSeq(out \o inl \o self,
                  LAMBDA e : e \notin Range(p) /\ SatisfiesConstraints(ggctx[e]))

\* the vertex an edge leads to from v
FarEnd(ee, v) ==
    CASE fcinfo.dir = "RIGHT" -> ee.end_id
      [] fcinfo.dir = "LEFT"  -> ee.start_id
      [] OTHER -> IF ee.start_id = v THEN ee.end_id ELSE ee.start_id

\* depth-first search from vertex v with the path p behind it: the paths in
\* the order they are met, each when its last edge is taken, the candidate
\* edges cands of v taken first to last (backwards: in the order of
\* Reverse of the lists)
RECURSIVE DepthFirstPaths(_, _, _, _)
DepthFirstPaths(backwards, v, p, cands) ==
    IF cands = <<>> THEN <<>>
    ELSE LET e      == Head(cands)
             p2     == Append(p, e)
             nv     == FarEnd(ggctx[e], v)
             size   == Len(p2)
             inside == ArgHiInfinite \/ size <= ArgHi
             found  == nv = fcinfo.veid /\ size >= ArgLo /\ inside
             deeper == (nv = fcinfo.veid => inside)
                       /\ (ArgHiInfinite \/ size < ArgHi)
             next   == CandidateEdges(nv, p2)
         IN  (IF found THEN <<p2>> ELSE <<>>)
             \o (IF deeper
                 THEN DepthFirstPaths(backwards, nv, p2,
                                      IF backwards THEN Reverse(next) ELSE next)
                 ELSE <<>>)
             \o DepthFirstPaths(backwards, v, p, Tail(cands))

DepthFirstOrder(backwards) ==
    LET first == CandidateEdges(fcinfo.vsid, <<>>)
    IN  DepthFirstPaths(backwards, fcinfo.vsid, <<>>,
                        IF backwards THEN Reverse(first) ELSE first)

YieldedInOrder == [i \in DOMAIN yielded |-> EdgesOf(yielded[i])]

IsPrefixOf(s, t) == Len(s) <= Len(t) /\ s = SubSeq(t, 1, Len(s))

\* C25, as stated: the paths come in the depth-first order in which the
\* edges of every vertex are taken in the order out list, in list, self list.
C25_OutInSelfOrder ==
    /\ pc \in {"yield", "done"} => IsPrefixOf(YieldedInOrder, DepthFirstOrder(FALSE))
    /\ pc = "done" => YieldedInOrder = DepthFirstOrder(FALSE)

\* C25, as the engine has it: the order is a function of the graph and the
\* arguments, the depth-first order in which the edges of every vertex are
\* taken last pushed first, that is the self list from its end, then the in
\* list from its end, then the out list from its end.
C25_LastPushedFirstOrder ==
    /\ pc \in {"yield", "done"} => IsPrefixOf(YieldedInOrder, DepthFirstOrder(TRUE))
    /\ pc = "done" => YieldedInOrder = DepthFirstOrder(TRUE)

\* three paths yielded in both directions of the edges, on a graph where
\* the two orders differ
C25_Witness ==
    /\ pc = "done"
    /\ fcinfo.dir = "NONE"
    /\ Len(yielded) >= 3
    /\ DepthFirstOrder(TRUE) # DepthFirstOrder(FALSE)

(***************************************************************************)
(* C26: an upper bound below the lower bound.                              *)
(***************************************************************************)
InvalidRangeGiven == ~ArgHiInfinite /\ ArgHi < ArgLo

\* C26: once the engine has been invoked with a finite upper bound smaller
\* than the lower bound, an error has been raised: the call neither
\* searches, nor yields, nor reports done.
C26_InvalidRangeRaises ==
    (InvalidRangeGiven /\ pc # "start") => pc = "error"

\* What the engine does with such a range: it raises nothing, searches up
\* to the upper bound, yields no path and reports done.
InvalidRangeSearchedInSilence ==
    InvalidRangeGiven =>
        /\ pc \in {"start", "dfs", "done"}
        /\ yielded = <<>>
        /\ pc # "start" => path_ctx.lidx = ArgLo /\ path_ctx.uidx = ArgHi

\* done reported for lo = 2, hi = 1 after edges have been taken
C26_Reached ==
    /\ InvalidRangeGiven
    /\ ArgLo = 2 /\ ArgHi = 1
    /\ pc = "done"
    /\ calls = 1
    /\ Len(ggctx) >= 1

(***************************************************************************)
(* C29: the vertex stack of an undirected traversal.                       *)
(***************************************************************************)
\* C29: in a traversal without direction the vertex stack and the edge
\* stack have the same size whenever a step starts, every entry of the
\* vertex stack is an endpoint of the edge at the same height of the edge
\* stack, so the vertex on top is an endpoint of the edge taken, and the
\* "no parent match" error is never raised.
C29_ParentOnVertexStack ==
    /\ pc # "error"
    /\ (pc # "start" /\ path_ctx.edge_direction = "NONE") =>
           /\ Len(dfs_vertex_queue) = Len(dfs_edge_queue)
           /\ \A i \in DOMAIN dfs_edge_queue :
                  dfs_vertex_queue[i] \in {ggctx[dfs_edge_queue[i]].start_id,
                                           ggctx[dfs_edge_queue[i]].end_id}

\* a step is about to take an edge against its direction, two edges deep,
\* with both vertices on the vertex stack
C29_Witness ==
    /\ pc = "dfs"
    /\ path_ctx.edge_direction = "NONE"
    /\ Len(dfs_path_queue) >= 2
    /\ dfs_edge_queue # <<>>
    /\ ~get_edge_state(edge_state, Head(dfs_edge_queue))
    /\ ggctx[Head(dfs_edge_queue)].end_id = Head(dfs_vertex_queue)
    /\ ggctx[Head(dfs_edge_queue)].start_id # Head(dfs_vertex_queue)
    /\ Cardinality(Range(dfs_vertex_queue)) = 2

(***************************************************************************)
(* C30: the visited marks, the path stack and the edge stack.              *)
(***************************************************************************)
RECURSIVE IsSubsequenceOf(_, _)
IsSubsequenceOf(p, s) ==
    IF p = <<>> THEN TRUE
    ELSE IF s = <<>> THEN FALSE
    ELSE IF Head(p) = Head(s) THEN IsSubsequenceOf(Tail(p), Tail(s))
    ELSE IsSubsequenceOf(p, Tail(s))

VisitedEdges == {e \in DOMAIN edge_state : get_edge_state(edge_state, e)}

\* C30: when a step of the engine starts and between two calls, the edges
\* marked visited are the edges on the path stack, no edge is on the path
\* stack twice, and the edges of the path stack are on the edge stack in
\* the same order.
C30_VisitedIsPath ==
    /\ VisitedEdges = Range(dfs_path_queue)
    /\ IsInjective(dfs_path_queue)
    /\ IsSubsequenceOf(dfs_path_queue, dfs_edge_queue)

\* between two calls, a path of two edges, with an edge that is on the edge
\* stack twice and candidates that are not on the path
C30_Witness ==
    /\ pc = "yield"
    /\ Len(dfs_path_queue) >= 2
    /\ ~IsInjective(dfs_edge_queue)
    /\ Range(dfs_edge_queue) # Range(dfs_path_queue)

(***************************************************************************)
(* C28: the predicates joining a variable length edge to a node.           *)
(***************************************************************************)
PdOnFirstEdge ==
    pd_call.fn \in {"gid_is_first_startid", "vertex_is_first_start_vertex",
                    "gid_is_first_endid", "vertex_is_first_end_vertex"}

PdOnStart ==
    pd_call.fn \in {"gid_is_first_startid", "vertex_is_first_start_vertex",
                    "gid_is_last_startid", "vertex_is_last_start_vertex"}

\* the edges of the VariableEdge, first to last
PdEdges == SelectSeq(pd_ve, LAMBDA entry : entry.kind = "edge")

\* the id the predicate called is named after
PdNamedEnd ==
    LET e == IF PdOnFirstEdge THEN PdEdges[1] ELSE PdEdges[Len(PdEdges)]
    IN  IF PdOnStart THEN e.start_id ELSE e.end_id

PdReturnsEarly ==
    pd_call.fn \in {"vertex_is_first_start_vertex", "gid_is_first_endid",
                    "vertex_is_first_end_vertex"}

\* C28: each of the eight predicates returns true exactly when the end of
\* the path it names, the start id or the end id of the first or of the
\* last edge, equals the given id or the id of the given vertex.
C28_PredicatesTestEndpoint ==
    pd_call # NoCall => (pd_call.result <=> PdNamedEnd = pd_id)

\* What the predicates do: three of them return true whatever the
\* arguments; the other five return true only if the low 32 bit words of
\* the two ids agree, and the three of them that take a graphid are exact
\* when an entry of the edge datum is read as a full 64 bit value.
PredicatesAsBuilt ==
    pd_call # NoCall =>
        /\ PdReturnsEarly => pd_call.result
        /\ (~PdReturnsEarly /\ pd_call.result) => PdNamedEnd.lo = pd_id.lo
        /\ (~PdReturnsEarly /\ pd_eentry_bits = 64
            /\ pd_call.fn \in {"gid_is_first_startid", "gid_is_last_startid",
                               "gid_is_last_endid"})
               => (pd_call.result <=> PdNamedEnd = pd_id)

\* vertex_is_first_start_vertex has returned true for a vertex that is not
\* the start of the first edge of a path of two edges
C28_Reached ==
    /\ pd_call = [fn |-> "vertex_is_first_start_vertex", result |-> TRUE]
    /\ Len(PdEdges) = 2
    /\ PdEdges[1].start_id.lo # pd_id.lo

(***************************************************************************)
(* C21, C22: errors raised while the pattern of a CREATE or of a MERGE     *)
(* clause is transformed.                                                  *)
(***************************************************************************)
CrRaised == cr_clause # "" /\ cr_error # ""

LabelNames(labels) == {l.name : l \in labels}

\* the labels the elements transformed so far are to be inserted with
InsertedLabelNames ==
    {IF cr_target_nodes[i].label_name = ""
     THEN AG_DEFAULT_LABEL_VERTEX
     ELSE cr_target_nodes[i].label_name :
        i \in {j \in 1..Len(cr_target_nodes) :
                  "CYPHER_TARGET_NODE_FLAG_INSERT" \in cr_target_nodes[j].flags}}

MergeRaisedAfterLabelCreated ==
    /\ cr_clause = "merge"
    /\ cr_error = "edges declared in a MERGE clause must have a label"
    /\ [name |-> "City", kind |-> "v"] \in cr_labels

CrUndirected ==
    {i \in 1..Len(cr_path) : cr_path[i].type = "edge" /\ cr_path[i].dir = "none"}

CrFirstUndirected == CHOOSE i \in CrUndirected : \A j \in CrUndirected : i <= j

\* the relationship passes the checks made before the one of its direction
CrEdgeOtherwiseFine(edge) ==
    /\ edge.label # "" =>
           \A lcd \in search_label_name_graph_cache(cr_labels, edge.label) : lcd.kind = "e"
    /\ ~variable_exists(cr_prev, edge.name)

UpDeclared == {up_prev.columns[i] : i \in 1..Len(up_prev.columns)}

UpClauseName ==
    IF up_clause = "delete" THEN "DELETE"
    ELSE IF up_clause = "remove" THEN "REMOVE" ELSE "SET"

UpEntered == up_clause # "" /\ (up_pos > 0 \/ up_error # "")

UpdateRefusedAsFirstClause ==
    /\ up_clause = "set"
    /\ ~up_prev.exists
    /\ up_error = "SET cannot be the first clause in a Cypher query"

====
